---- MODULE Spec2Model ----
(***************************************************************************)
(* A model of the query resolution and execution pipeline of the DevOps    *)
(* agent: the CLI command turn (cli_helper.py), the semantic cache         *)
(* (semantic_cache.py), the FAISS tool index (rag/faiss_index.py), the     *)
(* two-stage LLM agent (agent_module.py), the intent router (router.py),   *)
(* the startup sync of the tool index (tool_indexer.py, tool_retriever.py) *)
(* and the smart MCP router (smart_router.py).                             *)
(* Each component has its own variables, initial condition and next-state  *)
(* relation; a component's specification keeps the other components idle.  *)
(***************************************************************************)
EXTENDS Integers, Sequences, FiniteSets, TLC

VARIABLES
    \* ---- CLI command turn (cli_helper.process_command_turn)
    cliPc,          \* "idle" | "confirm" | "choose" | "done"
    no_confirm,     \* the turn's no_confirm flag
    result_pkg,     \* the package the agent returned, as the turn updates it
    confReq,        \* the confirmation_request as the agent returned it
    approved,       \* "unasked" | "yes" | "no": the answer to typer.confirm
    backendCalls,   \* backend calls issued during the current turn, in order
    sessionLog,     \* session_manager messages of the session
    turns,          \* number of turns started in the session
    \* ---- semantic cache (semantic_cache.SemanticCache)
    entries,        \* self.entries, oldest first
    cacheDisk,      \* the entries last written to cache_path
    pendingAdds,    \* add calls suspended at "await async_get_embeddings"
    addsStarted,    \* number of add calls made
    clock,          \* time.time(), as a logical clock
    lastAdded,      \* the arguments of the add call that returned last
    lastLookup,     \* the last lookup call and what it returned
    \* ---- FAISS tool index (rag/faiss_index.FaissToolIndex)
    faiss,          \* the faiss module was imported (FALSE: faiss = None)
    index,          \* self.index: None, or the number of vectors it holds
    metadata,       \* self.metadata: "tools" and "idx_to_tool"
    faissDisk,      \* faiss_index.bin and faiss_metadata.json
    \* ---- two-stage LLM agent (agent_module.DevOpsAgent)
    agentPc,        \* "idle" | "fast" | "smart" | "returned" | "raised"
    max_retries,    \* self.max_retries
    tools_schema,   \* the tools_schema argument of forward
    attempt,        \* the loop variable of Stage B
    last_error,     \* last_error of Stage B
    prediction,     \* the local variable prediction of forward
    smartQueries,   \* the modified_query of each Stage B attempt, in order
    parsed,         \* what parse_dspy_tool_calls returned last
    \* ---- intent router (router.IntentRouter)
    templates,      \* self._templates
    semantic_intents, \* self._semantic_intents
    routeCache,     \* the lru_cache of route: query -> returned value
    routeCalls,     \* number of route calls made
    lastRoute,      \* the last route call and what it returned
    \* ---- startup sync of the tool index (tool_indexer, rag/tool_retriever)
    registry,       \* the names of the registered tools (get_all_tools)
    embeddingsFile, \* the tool names that tool_embeddings.json holds
    syncs,          \* the sync runs made, in order: what each saw and did
    \* ---- a second process on the same index files (rag/faiss_index)
    peer,           \* self.index and self.metadata of the second process
    procAdds,       \* per process, the tools it added since the common load
    \* ---- smart MCP router (smart_router.SmartMCPRouter)
    last_mcp,       \* context_cache: session id -> last backend or "None"
    pulseStatus,    \* what pulse reports for k8s_remote
    lastSmart,      \* the route call made since the session and the pulse
                    \* last changed, and its result
    \* ---- backend services: one call of each, and the pulse monitor
    clientCall,     \* the last call_tool_async call and what it returned
    risk,           \* the last analyze_risk call and its assessment
    execRun,        \* RemoteK8sExecTool.run: position, command, effects
    retrieval,      \* the last ToolRetriever.retrieve call and its result
    pulse,          \* per backend: status and consecutive failed probes
    \* ---- the parser of LLM output (agent_module)
    parseCall,      \* the last parse call: the output and what came of it
    \* ---- persistent files and concurrent tasks
    saveRun,        \* FaissToolIndex._save: position, memory and files
    fileWrite,      \* the JSON caches on disk and the write under way
    queryCache,     \* _query_embedding_cache and the calls suspended
    gather          \* concurrent retrieve calls syncing one index

cliVars == <<cliPc, no_confirm, result_pkg, confReq, approved, backendCalls,
             sessionLog, turns>>

cacheVars == <<entries, cacheDisk, pendingAdds, addsStarted, clock,
               lastAdded, lastLookup>>

faissVars == <<faiss, index, metadata, faissDisk>>

agentVars == <<agentPc, max_retries, tools_schema, attempt, last_error,
               prediction, smartQueries, parsed>>

routerVars == <<templates, semantic_intents, routeCache, routeCalls, lastRoute>>

syncVars == <<registry, embeddingsFile, syncs>>

procVars == <<peer, procAdds>>

smartVars == <<last_mcp, pulseStatus, lastSmart>>

serviceVars == <<clientCall, risk, execRun, retrieval, pulse>>

parserVars == <<parseCall>>

storageVars == <<saveRun, fileWrite, queryCache, gather>>

vars == <<cliVars, cacheVars, faissVars, agentVars, routerVars, syncVars,
          procVars, smartVars, serviceVars, parserVars, storageVars>>

\* What the actions of one component leave alone.
NotCli == <<cacheVars, faissVars, agentVars, routerVars, syncVars, procVars,
           smartVars, serviceVars, parserVars, storageVars>>

NotCache == <<cliVars, faissVars, agentVars, routerVars, syncVars, procVars,
             smartVars, serviceVars, parserVars, storageVars>>

NotFaiss == <<cliVars, cacheVars, agentVars, routerVars, syncVars, procVars,
             smartVars, serviceVars, parserVars, storageVars>>

NotAgent == <<cliVars, cacheVars, faissVars, routerVars, syncVars, procVars,
             smartVars, serviceVars, parserVars, storageVars>>

NotRouter == <<cliVars, cacheVars, faissVars, agentVars, syncVars, procVars,
              smartVars, serviceVars, parserVars, storageVars>>

\* The sync and the second process act on the index of faissVars as well.
NotSync == <<cliVars, cacheVars, agentVars, routerVars, procVars, smartVars,
            serviceVars, parserVars, storageVars>>

NotProcs == <<cliVars, cacheVars, agentVars, routerVars, syncVars, smartVars,
             serviceVars, parserVars, storageVars>>

NotSmart == <<cliVars, cacheVars, faissVars, agentVars, routerVars, syncVars,
             procVars, serviceVars, parserVars, storageVars>>

\* The backend services leave every component above alone.
Components == <<cliVars, cacheVars, faissVars, agentVars, routerVars,
                syncVars, procVars, smartVars, parserVars, storageVars>>

\* The persistent files and the concurrent tasks leave the rest alone.
NotStorage == <<cliVars, cacheVars, faissVars, agentVars, routerVars,
                syncVars, procVars, smartVars, serviceVars, parserVars>>

(***************************************************************************)
(* Shared data: tool calls                                                 *)
(***************************************************************************)

\* A tool call {"name": ..., "arguments": {...}}.
Call(n, a) == [name |-> n, arguments |-> a]

NoArgs == <<>>

(***************************************************************************)
(* CLI command turn                                                        *)
(***************************************************************************)

\* Number of turns of the REPL session that are explored.
MaxTurns == 2

NoRequest == [present |-> FALSE, tool |-> "", arguments |-> NoArgs]

Request(t, a) == [present |-> TRUE, tool |-> t, arguments |-> a]

StopCall == Call("docker_stop_container", [container_id |-> "123abc456"])
ListCall == Call("docker_list_containers", NoArgs)
DeleteCall == Call("remote_k8s_delete_pod", [pod_name |-> "web"])
DescribeCall == Call("k8s_describe_pod", [pod_name |-> "web"])

\* The options of a disambiguation payload: key -> tool.
DescribeOptions == [k \in {"1", "2"} |->
    IF k = "1" THEN "local_k8s_describe_pod" ELSE "remote_k8s_describe_pod"]

Pkg(req, dis, opts, amb, calls, out, exec) ==
    [confirmation_request |-> req, disambiguation_needed |-> dis,
     options |-> opts, ambiguous_tool |-> amb, tool_calls |-> calls,
     output |-> out, executed |-> exec]

NoOptions == [k \in {} |-> ""]

\* The packages process_query_with_status_check returns: an executed result,
\* a confirmation payload (nothing executed), a disambiguation payload
\* (nothing executed). "executed" lists the backend calls the agent issued.
AgentPackages ==
    { Pkg(NoRequest, FALSE, NoOptions, "", <<ListCall>>, "ok", <<ListCall>>),
      Pkg(NoRequest, FALSE, NoOptions, "", <<>>, "chat", <<>>),
      Pkg(Request(StopCall.name, StopCall.arguments), FALSE, NoOptions, "",
          <<StopCall>>, "", <<>>),
      Pkg(Request(DeleteCall.name, DeleteCall.arguments), FALSE, NoOptions, "",
          <<ListCall, DeleteCall>>, "", <<>>),
      Pkg(NoRequest, TRUE, DescribeOptions, "k8s_describe_pod",
          <<DescribeCall>>, "", <<>>) }

EmptyPkg == Pkg(NoRequest, FALSE, NoOptions, "", <<>>, "", <<>>)

Choices == {"1", "2", "9"}

Msg(role, content) == [role |-> role, content |-> content]

\* Lines 112-127: the assistant tool-call record (only for a non-empty
\* list) and the system-output record.
LogResult(log, pkg) ==
    LET withCalls == IF pkg.tool_calls # <<>>
                     THEN Append(log, Msg("assistant", pkg.tool_calls))
                     ELSE log
    IN Append(withCalls, Msg("system_output", <<pkg.output>>))

\* execute_tool_calls_async: dispatches every call of the list, in order.
ExecuteToolCalls(calls) == calls

\* Lines 84-134 when no prompt is pending: either the disambiguation prompt
\* is shown (the turn waits for the choice) or the result is logged.
AfterConfirmation(pkg, calls, log) ==
    IF pkg.disambiguation_needed
    THEN /\ cliPc' = "choose"
         /\ result_pkg' = pkg
         /\ backendCalls' = calls
         /\ sessionLog' = log
    ELSE /\ cliPc' = "done"
         /\ result_pkg' = pkg
         /\ backendCalls' = calls
         /\ sessionLog' = LogResult(log, pkg)

\* Line 47: the approval prompt is shown.
AsksApprovalMutant(pkg, nc) == pkg.confirmation_request.present

AsksApproval(pkg, nc) == pkg.confirmation_request.present /\ ~nc

\* Lines 26-66: log the query, call the agent, and run up to the first
\* prompt (or to the end of the turn when nothing is asked).
ProcessCommandTurn(query, nc, pkg) ==
    /\ UNCHANGED NotCli
    /\ cliPc \in {"idle", "done"}
    /\ turns < MaxTurns
    /\ turns' = turns + 1
    /\ no_confirm' = nc
    /\ confReq' = pkg.confirmation_request
    /\ approved' = "unasked"
    /\ LET log == Append(sessionLog, Msg("user", <<query>>))
       IN IF AsksApproval(pkg, nc)
          THEN /\ cliPc' = "confirm"
               /\ result_pkg' = pkg
               /\ backendCalls' = pkg.executed
               /\ sessionLog' = log
          ELSE AfterConfirmation(pkg, pkg.executed, log)

\* Line 44 raising: the except clause prints the error, nothing else happens.
ProcessCommandTurnRaises(query, nc) ==
    /\ UNCHANGED NotCli
    /\ cliPc \in {"idle", "done"}
    /\ turns < MaxTurns
    /\ turns' = turns + 1
    /\ no_confirm' = nc
    /\ confReq' = NoRequest
    /\ approved' = "unasked"
    /\ cliPc' = "done"
    /\ result_pkg' = EmptyPkg
    /\ backendCalls' = <<>>
    /\ sessionLog' = Append(sessionLog, Msg("user", <<query>>))

\* Line 66: the user's answer decides whether the tool is called.
ProceedsMutant(ans) == TRUE

Proceeds(ans) == ans

\* Lines 66-82: the answer to typer.confirm. On yes the tool of the request
\* is called directly and the package is rewritten to that single call; on
\* no the turn returns without logging.
Confirm(ans, out) ==
    /\ UNCHANGED NotCli
    /\ cliPc = "confirm"
    /\ approved' = (IF ans THEN "yes" ELSE "no")
    /\ UNCHANGED <<no_confirm, confReq, turns>>
    /\ IF Proceeds(ans)
       THEN LET req == result_pkg.confirmation_request
                call == Call(req.tool, req.arguments)
                pkg == [result_pkg EXCEPT !.output = out,
                                          !.tool_calls = <<call>>]
            IN AfterConfirmation(pkg, Append(backendCalls, call), sessionLog)
       ELSE /\ cliPc' = "done"
            /\ UNCHANGED <<result_pkg, backendCalls, sessionLog>>

\* Lines 97-99: the ambiguous tool is renamed to the selected one.
Rename(calls, amb, sel) ==
    [i \in 1..Len(calls) |->
        IF calls[i].name = amb THEN [calls[i] EXCEPT !.name = sel]
        ELSE calls[i]]

\* Lines 91-110: the answer to the disambiguation prompt.
Choose(choice, out) ==
    /\ UNCHANGED NotCli
    /\ cliPc = "choose"
    /\ UNCHANGED <<no_confirm, confReq, approved, turns>>
    /\ cliPc' = "done"
    /\ IF choice \in DOMAIN result_pkg.options
       THEN LET calls == Rename(result_pkg.tool_calls,
                                result_pkg.ambiguous_tool,
                                result_pkg.options[choice])
                pkg == [result_pkg EXCEPT !.tool_calls = calls,
                                          !.output = out,
                                          !.disambiguation_needed = FALSE]
            IN /\ result_pkg' = pkg
               /\ backendCalls' = backendCalls \o ExecuteToolCalls(calls)
               /\ sessionLog' = LogResult(sessionLog, pkg)
       ELSE UNCHANGED <<result_pkg, backendCalls, sessionLog>>

Queries == {"list containers", "stop container 123abc456"}

Outputs == {"ok", "Operation failed"}

CliInit ==
    /\ cliPc = "idle"
    /\ no_confirm = FALSE
    /\ result_pkg = EmptyPkg
    /\ confReq = NoRequest
    /\ approved = "unasked"
    /\ backendCalls = <<>>
    /\ sessionLog = <<>>
    /\ turns = 0

CliNext ==
    \/ \E q \in Queries, nc \in BOOLEAN, pkg \in AgentPackages :
          ProcessCommandTurn(q, nc, pkg)
    \/ \E q \in Queries, nc \in BOOLEAN : ProcessCommandTurnRaises(q, nc)
    \/ \E ans \in BOOLEAN, out \in Outputs : Confirm(ans, out)
    \/ \E c \in Choices, out \in Outputs : Choose(c, out)


(***************************************************************************)
(* Embeddings and cosine similarity (semantic_cache.py, router.py)         *)
(***************************************************************************)

\* Embedding vectors have integer components and an integral norm, so that
\* a score is the exact rational dot / (norm_a * norm_b).
Dot(v1, v2) ==
    LET n == IF Len(v1) < Len(v2) THEN Len(v1) ELSE Len(v2)
        F[i \in 0..n] == IF i = 0 THEN 0 ELSE F[i - 1] + v1[i] * v2[i]
    IN F[n]

Norm(v) == LET s == Dot(v, v) IN CHOOSE r \in 0..s : r * r = s

Score(n, d) == [num |-> n, den |-> d]

\* _cosine_similarity: 0.0 for an empty vector or a zero norm.
CosineSimilarity(v1, v2) ==
    IF v1 = <<>> \/ v2 = <<>> THEN Score(0, 1)
    ELSE LET na == Norm(v1)
             nb == Norm(v2)
         IN IF na = 0 \/ nb = 0 THEN Score(0, 1)
            ELSE Score(Dot(v1, v2), na * nb)

\* s1 > s2 and s1 >= s2 on scores (denominators are positive).
ScoreGT(s1, s2) == s1.num * s2.den > s2.num * s1.den

ScoreGE(s1, s2) == s1.num * s2.den >= s2.num * s1.den

MinusOne == Score(-1, 1)

(***************************************************************************)
(* Semantic cache                                                          *)
(***************************************************************************)

\* "Max 500 entries" (semantic_cache.py line 102).
MAX_ENTRIES == 500

\* threshold = 0.98 (semantic_cache.py line 16).
CacheThreshold == Score(49, 50)

\* Number of add calls that are explored, and how many of them may be
\* suspended at once.
MaxAdds == 2

MaxPending == 1

\* Query texts, identified by numbers; the embedding service maps each to
\* a vector.  With 1 = (3,4,0,0): 2 is at cosine 0.98 exactly, 3 at 0.96,
\* 4 at 1.0 (a paraphrase with a parallel embedding).
CacheQueries == 1..4

\* The queries whose results are added.
AddQueries == 1..2

Emb(q) ==
    CASE q = 1 -> <<3, 4, 0, 0>>
      [] q = 2 -> <<7, 7, 1, 1>>
      [] q = 3 -> <<8, 6, 0, 0>>
      [] q = 4 -> <<6, 8, 0, 0>>
      [] OTHER -> <<0, 0, 0, 10>>

\* active_mcp values; "None" stands for Python's None.
Scopes == {"None", "k8s_local", "k8s_remote"}

\* Formatted outputs, as character sequences: "ok", "up", "Error".
CacheOutputs ==
    { <<"o", "k">>, <<"u", "p">>, <<"E", "r", "r", "o", "r">> }

\* str.lower() on the characters of the model.
LowerChar(c) ==
    CASE c = "E" -> "e" [] c = "R" -> "r" [] c = "O" -> "o"
      [] c = "F" -> "f" [] c = "A" -> "a" [] c = "I" -> "i"
      [] c = "L" -> "l" [] c = "D" -> "d" [] OTHER -> c

Lower(s) == [i \in 1..Len(s) |-> LowerChar(s[i])]

\* sub in s
Contains(s, sub) ==
    \E i \in 1..(Len(s) - Len(sub) + 1) : SubSeq(s, i, i + Len(sub) - 1) = sub

FailedText == <<"f", "a", "i", "l", "e", "d">>
ErrorText == <<"e", "r", "r", "o", "r">>

\* Line 74, without lower(): what a case-sensitive test would let through.
IsErrorOutputMutant(output) ==
    Contains(output, FailedText) \/ Contains(output, ErrorText)

\* Line 74: "failed" in output.lower() or "error" in output.lower()
IsErrorOutput(output) ==
    Contains(Lower(output), FailedText) \/ Contains(Lower(output), ErrorText)

\* The strings of the model that contain the text "confirmation".
ConfirmationTexts == {"confirmation_request", "confirmation"}

PodsCall == Call("local_k8s_list_pods", [namespace |-> "default"])

\* A tool call dict that carries a confirmation request.
PendingStopCall ==
    [name |-> "docker_stop_container",
     arguments |-> [container_id |-> "123abc456"],
     confirmation_request |-> [tool |-> "docker_stop_container"]]

CacheCallLists == { <<PodsCall>>, <<ListCall, PendingStopCall>> }

\* "confirmation" in str(tc): the dict's repr holds its keys, its name and
\* the keys and values of its arguments.
StrHasConfirmation(tc) ==
    \/ \E k \in DOMAIN tc : k \in ConfirmationTexts
    \/ tc.name \in ConfirmationTexts
    \/ \E k \in DOMAIN tc.arguments :
          k \in ConfirmationTexts \/ tc.arguments[k] \in ConfirmationTexts

\* Line 78: any("confirmation" in str(tc) for tc in tool_calls)
HasConfirmation(tool_calls) ==
    \E i \in 1..Len(tool_calls) : StrHasConfirmation(tool_calls[i])

Entry(q, emb, out, calls, mcp, ts) ==
    [query |-> q, embedding |-> emb, output |-> out, tool_calls |-> calls,
     active_mcp |-> mcp, timestamp |-> ts]

AddCallRec(q, out, calls, mcp) ==
    [query |-> q, output |-> out, tool_calls |-> calls, active_mcp |-> mcp]

\* A returned add call: its arguments, whether its embedding was computed,
\* and whether a lookup of its query in its scope missed when it ran (the
\* execution it reports was not served from the cache).
Returned(p, ok, miss) ==
    [query |-> p.query, output |-> p.output, tool_calls |-> p.tool_calls,
     active_mcp |-> p.active_mcp, embOk |-> ok, wasMiss |-> miss]

NoAdd == Returned(AddCallRec(0, <<>>, <<>>, "None"), FALSE, FALSE)

\* What lookup returns: None (a miss) or {"output", "tool_calls", "cached"}.
Miss(q, mcp, ok) ==
    [query |-> q, active_mcp |-> mcp, embOk |-> ok, hit |-> FALSE,
     output |-> <<>>, tool_calls |-> <<>>]

Hit(q, mcp, e) ==
    [query |-> q, active_mcp |-> mcp, embOk |-> TRUE, hit |-> TRUE,
     output |-> e.output, tool_calls |-> e.tool_calls]

NoLookup == Miss(0, "None", FALSE)

\* Lines 102-103, evicting the second oldest entry instead of the oldest.
EvictMutant(es) ==
    IF Len(es) > MAX_ENTRIES THEN <<Head(es)>> \o Tail(Tail(es)) ELSE es

\* Lines 102-103: if len(self.entries) > 500: self.entries.pop(0)
Evict(es) == IF Len(es) > MAX_ENTRIES THEN Tail(es) ELSE es

\* Lines 86-88, without the scan of the entries.
IsDuplicateMutant(es, q) == FALSE

\* Lines 86-88: an entry with the same query text exists.
IsDuplicate(es, q) == \E i \in 1..Len(es) : es[i].query = q

\* Line 53, without the scope filter.
ScopeSkipsMutant(mcp, e) == FALSE

\* Line 53: the entry is skipped by the scope filter.
ScopeSkips(mcp, e) == mcp # "None" /\ e.active_mcp # mcp

\* Lines 56-59 for one entry, from best_match = None, highest_score = -1.0:
\* the index of best_match (0 for None) and highest_score.
ScanOne(es, i, emb, mcp) ==
    IF ScopeSkips(mcp, es[i]) THEN [best |-> 0, highest |-> MinusOne]
    ELSE LET score == CosineSimilarity(emb, es[i].embedding)
         IN IF ScoreGT(score, MinusOne) THEN [best |-> i, highest |-> score]
            ELSE [best |-> 0, highest |-> MinusOne]

\* Lines 48-59: the scan of the entries lo..hi.  The loop keeps the first
\* entry of the highest score (a later entry replaces it only on a strictly
\* higher score); the same result is computed here by halves.
RECURSIVE Scan(_, _, _, _, _)
Scan(es, lo, hi, emb, mcp) ==
    IF lo > hi THEN [best |-> 0, highest |-> MinusOne]
    ELSE IF lo = hi THEN ScanOne(es, lo, emb, mcp)
    ELSE LET mid == (lo + hi) \div 2
             left == Scan(es, lo, mid, emb, mcp)
             right == Scan(es, mid + 1, hi, emb, mcp)
         IN IF ScoreGT(right.highest, left.highest) THEN right ELSE left

\* Line 61, with a strict comparison.
IsHitMutant(highest) == ScoreGT(highest, CacheThreshold)

\* Line 61: highest_score >= self.threshold
IsHit(highest) == ScoreGE(highest, CacheThreshold)

\* Lines 39-69: lookup.
LookupResult(q, mcp, embOk) ==
    IF entries = <<>> \/ ~embOk THEN Miss(q, mcp, embOk)
    ELSE LET r == Scan(entries, 1, Len(entries), Emb(q), mcp)
         IN IF IsHit(r.highest) THEN Hit(q, mcp, entries[r.best])
            ELSE Miss(q, mcp, TRUE)

\* Lines 71-81: add is called while fewer than limit calls are suspended;
\* the early returns of lines 74-79, else the call suspends while the
\* embedding is computed.
AddCallWithin(limit, q, out, calls, mcp) ==
    /\ UNCHANGED NotCache
    /\ addsStarted < MaxAdds
    /\ Cardinality(pendingAdds) < limit
    /\ addsStarted' = addsStarted + 1
    /\ IF IsErrorOutput(out) \/ HasConfirmation(calls)
       THEN /\ lastAdded' = Returned(AddCallRec(q, out, calls, mcp), TRUE,
                                     ~LookupResult(q, mcp, TRUE).hit)
            /\ lastLookup' = NoLookup
            /\ UNCHANGED pendingAdds
       ELSE /\ pendingAdds' = pendingAdds \cup {AddCallRec(q, out, calls, mcp)}
            /\ UNCHANGED <<lastAdded, lastLookup>>
    /\ UNCHANGED <<entries, cacheDisk, clock>>

AddCall(q, out, calls, mcp) == AddCallWithin(MaxPending, q, out, calls, mcp)

\* Lines 81-111: the embedding arrives (or not); duplicates are skipped;
\* the entry is appended, the oldest evicted beyond the bound, and the
\* entries are saved.
AddResume(p, embOk) ==
    /\ UNCHANGED NotCache
    /\ p \in pendingAdds
    /\ pendingAdds' = pendingAdds \ {p}
    /\ lastAdded' = Returned(p, embOk, ~LookupResult(p.query, p.active_mcp, TRUE).hit)
    /\ lastLookup' = NoLookup
    /\ clock' = clock + 1
    /\ IF ~embOk \/ IsDuplicate(entries, p.query)
       THEN UNCHANGED <<entries, cacheDisk>>
       ELSE LET new == Entry(p.query, Emb(p.query), p.output, p.tool_calls,
                             p.active_mcp, clock)
                es == Evict(Append(entries, new))
            IN /\ entries' = es
               /\ cacheDisk' = es
    /\ UNCHANGED addsStarted

Lookup(q, mcp, embOk) ==
    /\ UNCHANGED NotCache
    /\ lastLookup' = LookupResult(q, mcp, embOk)
    /\ UNCHANGED <<entries, cacheDisk, pendingAdds, addsStarted, clock,
                   lastAdded>>

\* A new process: __init__ / _load reads the entries back from cache_path.
CacheRestart ==
    /\ UNCHANGED NotCache
    /\ entries # cacheDisk \/ pendingAdds # {}
    /\ entries' = cacheDisk
    /\ pendingAdds' = {}
    /\ UNCHANGED <<cacheDisk, addsStarted, clock, lastAdded, lastLookup>>

\* The entries a cache file holds after n adds of earlier runs.
Saved(n) ==
    [i \in 1..n |-> Entry(1000 + i, Emb(1000 + i), <<"o", "k">>, <<ListCall>>,
                          "None", i)]

CacheLoaded(n) ==
    /\ entries = Saved(n)
    /\ cacheDisk = Saved(n)
    /\ clock = n + 1
    /\ pendingAdds = {}
    /\ addsStarted = 0
    /\ lastAdded = NoAdd
    /\ lastLookup = NoLookup

\* No cache file yet.
CacheInit == CacheLoaded(0)

\* A cache file one or no entry short of the bound.
CacheFullInit == \E n \in {MAX_ENTRIES - 1, MAX_ENTRIES} : CacheLoaded(n)

CacheIdle == CacheInit

\* The operations that change the entries.
CacheWriteNext ==
    \/ \E q \in AddQueries, out \in CacheOutputs, calls \in CacheCallLists,
          mcp \in Scopes : AddCall(q, out, calls, mcp)
    \/ \E p \in pendingAdds, ok \in BOOLEAN : AddResume(p, ok)
    \/ CacheRestart

\* The same, for results of one shape.
CacheFullNext ==
    \/ \E q \in AddQueries, out \in {<<"o", "k">>, <<"u", "p">>} :
          AddCall(q, out, <<PodsCall>>, "None")
    \/ \E p \in pendingAdds, ok \in BOOLEAN : AddResume(p, ok)
    \/ CacheRestart

\* Number of add calls that are suspended at once when the adds of several
\* requests run concurrently.
MaxConcurrentAdds == 2

\* Concurrent adds: a call is started while others await their embedding,
\* and the suspended calls resume in any order.  From the arrival of the
\* embedding to the append nothing suspends the call (lines 82-103); the
\* save that follows (lines 107-111) reads the entries when it runs.
ConcurrentAddsNext ==
    \/ \E q \in AddQueries, out \in CacheOutputs, calls \in CacheCallLists,
          mcp \in Scopes : AddCallWithin(MaxConcurrentAdds, q, out, calls, mcp)
    \/ \E p \in pendingAdds, ok \in BOOLEAN : AddResume(p, ok)
    \/ CacheRestart

\* A lookup reads the entries and changes none: of the lookups made
\* between two returns of add, the model makes one.
CacheNext ==
    \/ CacheWriteNext
    \/ \E q \in CacheQueries, mcp \in Scopes, ok \in BOOLEAN :
           lastLookup = NoLookup /\ Lookup(q, mcp, ok)

(***************************************************************************)
(* FAISS tool index (rag/faiss_index.py)                                   *)
(***************************************************************************)

\* Number of tools that are indexed.
MaxTools == 3

ToolPool == <<"docker_list_containers", "docker_stop_container",
              "local_k8s_list_pods", "remote_k8s_list_pods",
              "docker_run_container">>

FaissToolNames ==
    { ToolPool[i] : i \in 1..(IF MaxTools < Len(ToolPool)
                                THEN MaxTools ELSE Len(ToolPool)) }

\* Lengths of the descriptions passed to add.
DescLengths == {0, 201}

\* description[:200] (line 161), on the length of the description.
Truncate(len) == IF len > 200 THEN 200 ELSE len

Digits == <<"0", "1", "2", "3", "4", "5", "6", "7", "8", "9">>

\* str(idx) (lines 163, 220, 267): the decimal numeral of idx.
RECURSIVE Str(_)
Str(i) ==
    IF i < 10 THEN <<Digits[i + 1]>>
    ELSE Str(i \div 10) \o <<Digits[(i % 10) + 1]>>

\* Line 64: self.index = None.
NoIndex == [present |-> FALSE, ntotal |-> 0]

\* Line 92: faiss.IndexFlatIP(EMBEDDING_DIM), an index without vectors.
FlatIndex(n) == [present |-> TRUE, ntotal |-> n]

\* Lines 65-68 and 103: {"tools": {}, "idx_to_tool": {}}.
EmptyMetadata == [tools |-> <<>>, idx_to_tool |-> <<>>]

NoFaissFiles == [exists |-> FALSE, ntotal |-> 0, metadata |-> EmptyMetadata]

\* The in-memory index, its metadata and the two files, as one value.
FaissState(i, m, d) == [index |-> i, metadata |-> m, disk |-> d]

\* _create_empty_index (lines 89-103).
CreateEmptyIndex(st) == FaissState(FlatIndex(0), EmptyMetadata, st.disk)

\* _save (lines 122-138): the metadata file, then the index file, both
\* by temp file and rename under the file lock.
Save(st) ==
    FaissState(st.index, st.metadata,
               [exists |-> TRUE, ntotal |-> st.index.ntotal,
                metadata |-> st.metadata])

\* clear (lines 249-253).
Clear(st) == Save(CreateEmptyIndex(st))

\* _rebuild_without keeping the other tools in the metadata.
RebuildWithoutMutant(st, exclude_tool) ==
    FaissState(FlatIndex(0),
               [tools |-> [n \in DOMAIN st.metadata.tools \ {exclude_tool}
                              |-> st.metadata.tools[n]],
                idx_to_tool |-> st.metadata.idx_to_tool],
               st.disk)

\* _rebuild_without (lines 186-201): the index and the metadata are emptied
\* (the embeddings of the other tools are not stored), nothing is saved.
RebuildWithout(st, exclude_tool) == CreateEmptyIndex(st)

\* remove (lines 168-184).
Remove(st, tool_name) ==
    IF tool_name \notin DOMAIN st.metadata.tools THEN st
    ELSE IF DOMAIN st.metadata.tools \ {tool_name} = {} THEN Clear(st)
    ELSE RebuildWithout(st, tool_name)

\* add (lines 140-166).  dimOk: the embedding has EMBEDDING_DIM components;
\* index.add raises on any other, after an existing entry was removed.
Add(st, tool_name, dimOk, descLen) ==
    IF ~st.index.present THEN st
    ELSE LET r == IF tool_name \in DOMAIN st.metadata.tools
                  THEN Remove(st, tool_name) ELSE st
             idx == r.index.ntotal
         IN  IF ~dimOk THEN r
             ELSE Save(FaissState(
                    FlatIndex(r.index.ntotal + 1),
                    [tools |-> (tool_name :> [idx |-> idx,
                                             description |-> Truncate(descLen)])
                               @@ r.metadata.tools,
                     idx_to_tool |-> (Str(idx) :> tool_name)
                                     @@ r.metadata.idx_to_tool],
                    r.disk))

\* verify (lines 255-275): the issues it reports.
Verify(st) ==
    (IF st.index.present /\ st.index.ntotal # Cardinality(DOMAIN st.metadata.tools)
     THEN {"Index size mismatch"} ELSE {})
    \cup { "Mapping mismatch" : name \in
             { n \in DOMAIN st.metadata.tools :
                 \/ Str(st.metadata.tools[n].idx) \notin DOMAIN st.metadata.idx_to_tool
                 \/ st.metadata.idx_to_tool[Str(st.metadata.tools[n].idx)] # n } }

\* _load_or_create (lines 72-87) of a new process.
LoadOrCreate(available, disk) ==
    IF ~available THEN FaissState(NoIndex, EmptyMetadata, disk)
    ELSE IF disk.exists
         THEN FaissState(FlatIndex(disk.ntotal), disk.metadata, disk)
         ELSE FaissState(FlatIndex(0), EmptyMetadata, disk)

Current == FaissState(index, metadata, faissDisk)

Becomes(st) ==
    /\ index' = st.index
    /\ metadata' = st.metadata
    /\ faissDisk' = st.disk
    /\ UNCHANGED faiss

FaissAdd(tool_name, dimOk, descLen) ==
    /\ UNCHANGED NotFaiss
    /\ Becomes(Add(Current, tool_name, dimOk, descLen))

FaissRemove(tool_name) ==
    /\ UNCHANGED NotFaiss
    /\ Becomes(Remove(Current, tool_name))

\* With faiss = None, _create_empty_index raises at line 92.
FaissClear ==
    /\ UNCHANGED NotFaiss
    /\ Becomes(IF faiss THEN Clear(Current) ELSE Current)

\* The process ends and a new one constructs the index from the files.
FaissRestart ==
    /\ UNCHANGED NotFaiss
    /\ Current # LoadOrCreate(faiss, faissDisk)
    /\ Becomes(LoadOrCreate(faiss, faissDisk))

FaissLoaded(available) ==
    /\ faiss = available
    /\ index = LoadOrCreate(available, NoFaissFiles).index
    /\ metadata = EmptyMetadata
    /\ faissDisk = NoFaissFiles

FaissInit == \E available \in BOOLEAN : FaissLoaded(available)

FaissIdle == FaissLoaded(TRUE)

FaissNext ==
    \/ \E n \in FaissToolNames, dimOk \in BOOLEAN, d \in DescLengths :
           FaissAdd(n, dimOk, d)
    \/ \E n \in FaissToolNames : FaissRemove(n)
    \/ FaissClear
    \/ FaissRestart

(***************************************************************************)
(* LLM output: text, JSON values and the parse pipeline (agent_module.py)  *)
(***************************************************************************)

\* A text is a sequence of tokens: punctuation of JSON, JSON string
\* literals, numbers, words of prose, the code fence and the line break.
Tok(t, v) == [t |-> t, v |-> v]

LB == Tok("p", "[")

RB == Tok("p", "]")

LC == Tok("p", "{")

RC == Tok("p", "}")

COMMA == Tok("p", ",")

COLON == Tok("p", ":")

\* The code fence, three backquotes.
FENCE == Tok("f", "fence")

NL == Tok("n", "\n")

S(s) == Tok("s", s)

\* A number literal.
D(n) == Tok("d", n)

W(w) == Tok("w", w)

\* Python values that json_repair.loads returns.
JNone == [k |-> "none"]

JStr(s) == [k |-> "str", s |-> s]

JNum(n) == [k |-> "num", n |-> n]

JList(items) == [k |-> "list", items |-> items]

JDict(keys, vals) == [k |-> "dict", keys |-> keys, vals |-> vals]

EmptyDict == JDict(<<>>, <<>>)

ParseOk(val, next) == [ok |-> TRUE, val |-> val, next |-> next]

ParseFail == [ok |-> FALSE, val |-> JNone, next |-> 0]

\* json_repair.loads (line 290) on a well-formed JSON text is json.loads:
\* a recursive descent over the tokens from position i.
RECURSIVE ParseValue(_, _), ParseItems(_, _, _), ParseMembers(_, _, _, _)
ParseValue(toks, i) ==
    IF i > Len(toks) THEN ParseFail
    ELSE IF toks[i].t = "s" THEN ParseOk(JStr(toks[i].v), i + 1)
    ELSE IF toks[i].t = "d" THEN ParseOk(JNum(toks[i].v), i + 1)
    ELSE IF toks[i] = LB
         THEN IF i < Len(toks) /\ toks[i + 1] = RB
              THEN ParseOk(JList(<<>>), i + 2)
              ELSE ParseItems(toks, i + 1, <<>>)
    ELSE IF toks[i] = LC
         THEN IF i < Len(toks) /\ toks[i + 1] = RC
              THEN ParseOk(EmptyDict, i + 2)
              ELSE ParseMembers(toks, i + 1, <<>>, <<>>)
    ELSE ParseFail

ParseItems(toks, i, acc) ==
    LET r == ParseValue(toks, i)
    IN  IF ~r.ok \/ r.next > Len(toks) THEN ParseFail
        ELSE IF toks[r.next] = COMMA
             THEN ParseItems(toks, r.next + 1, Append(acc, r.val))
        ELSE IF toks[r.next] = RB
             THEN ParseOk(JList(Append(acc, r.val)), r.next + 1)
        ELSE ParseFail

ParseMembers(toks, i, keys, vals) ==
    IF i + 1 > Len(toks) \/ toks[i].t # "s" \/ toks[i + 1] # COLON
    THEN ParseFail
    ELSE LET r == ParseValue(toks, i + 2)
         IN  IF ~r.ok \/ r.next > Len(toks) THEN ParseFail
             ELSE IF toks[r.next] = COMMA
                  THEN ParseMembers(toks, r.next + 1, Append(keys, toks[i].v),
                                    Append(vals, r.val))
             ELSE IF toks[r.next] = RC
                  THEN ParseOk(JDict(Append(keys, toks[i].v),
                                     Append(vals, r.val)), r.next + 1)
             ELSE ParseFail

\* json_repair.loads(cleaned): the value of a JSON text; "" for a text that
\* holds no JSON.
JsonLoads(toks) ==
    LET r == ParseValue(toks, 1)
    IN  IF r.ok /\ r.next = Len(toks) + 1 THEN r.val ELSE JStr("")

\* key in item
Has(item, key) == \E i \in 1..Len(item.keys) : item.keys[i] = key

\* item.get(key)
Get(item, key) ==
    IF Has(item, key)
    THEN item.vals[CHOOSE i \in 1..Len(item.keys) :
                       /\ item.keys[i] = key
                       /\ \A j \in (i + 1)..Len(item.keys) : item.keys[j] # key]
    ELSE JNone

\* Truth value of a Python value.
Truthy(v) ==
    CASE v.k = "none" -> FALSE
      [] v.k = "str" -> v.s # ""
      [] v.k = "num" -> v.n # 0
      [] v.k = "list" -> v.items # <<>>
      [] v.k = "dict" -> v.keys # <<>>

\* a or b
PyOr(a, b) == IF Truthy(a) THEN a ELSE b

\* A normalized tool call {"name": ..., "arguments": ...}.
ToolCall(name, args) == [name |-> name, arguments |-> args]

\* Lines 299, 309, 344.
HasNameKey(item) ==
    Has(item, "name") \/ Has(item, "tool_name") \/ Has(item, "tool")

\* _normalize_single (lines 318-326).
NormalizeSingle(item) ==
    ToolCall(PyOr(PyOr(Get(item, "name"), Get(item, "tool_name")),
                  Get(item, "tool")),
             PyOr(PyOr(PyOr(Get(item, "arguments"), Get(item, "parameters")),
                       Get(item, "input")),
                  EmptyDict))

\* Lines 340-345: the loop of _normalize_tool_list.
RECURSIVE NormalizeItems(_)
NormalizeItems(data) ==
    IF data = <<>> THEN <<>>
    ELSE LET item == Head(data)
             one == IF item.k = "str" THEN <<ToolCall(item, EmptyDict)>>
                    ELSE IF item.k = "dict" /\ HasNameKey(item)
                         THEN <<NormalizeSingle(item)>>
                    ELSE <<>>
         IN  one \o NormalizeItems(Tail(data))

\* _normalize_tool_list (lines 328-347).
NormalizeToolList(data) ==
    IF Len(data) = 2 /\ data[1].k = "str" /\ data[2].k = "dict"
    THEN <<ToolCall(data[1], data[2])>>
    ELSE IF Len(data) = 1 /\ data[1].k = "str"
    THEN <<ToolCall(data[1], EmptyDict)>>
    ELSE NormalizeItems(data)

\* output.strip(): the line breaks at both ends are dropped.
RECURSIVE Strip(_)
Strip(toks) ==
    IF toks = <<>> THEN toks
    ELSE IF Head(toks) = NL THEN Strip(Tail(toks))
    ELSE IF toks[Len(toks)] = NL THEN Strip(SubSeq(toks, 1, Len(toks) - 1))
    ELSE toks

\* cleaned.splitlines()
RECURSIVE SplitLines(_, _)
SplitLines(toks, line) ==
    IF toks = <<>> THEN (IF line = <<>> THEN <<>> ELSE <<line>>)
    ELSE IF Head(toks) = NL THEN <<line>> \o SplitLines(Tail(toks), <<>>)
    ELSE SplitLines(Tail(toks), Append(line, Head(toks)))

\* "\n".join(lines)
RECURSIVE JoinLines(_)
JoinLines(lines) ==
    IF lines = <<>> THEN <<>>
    ELSE IF Len(lines) = 1 THEN lines[1]
    ELSE lines[1] \o <<NL>> \o JoinLines(Tail(lines))

\* Lines 256-259: a fenced code block loses its first and last line.
Unfence(cleaned) ==
    IF cleaned # <<>> /\ cleaned[1] = FENCE /\ Len(SplitLines(cleaned, <<>>)) >= 3
    THEN LET lines == SplitLines(cleaned, <<>>)
         IN  JoinLines(SubSeq(lines, 2, Len(lines) - 1))
    ELSE cleaned

\* cleaned.find(c): the first position of c, 0 when there is none.
Find(toks, c) ==
    IF \E i \in 1..Len(toks) : toks[i] = c
    THEN CHOOSE i \in 1..Len(toks) :
             toks[i] = c /\ \A j \in 1..(i - 1) : toks[j] # c
    ELSE 0

\* Lines 270-276 and 279-285: bracket counting from position i, count being
\* the count before position i; the position of the balanced closer, 0 when
\* the text ends first.
RECURSIVE Closer(_, _, _, _, _)
Closer(toks, i, count, open, close) ==
    IF i > Len(toks) THEN 0
    ELSE LET c == IF toks[i] = open THEN count + 1
                  ELSE IF toks[i] = close THEN count - 1
                  ELSE count
         IN  IF c = 0 THEN i ELSE Closer(toks, i + 1, c, open, close)

\* Lines 262-287: extraction of the JSON embedded in prose.  found is FALSE
\* when the text holds neither '[' nor '{' (return None).
Extract(cleaned) ==
    IF cleaned # <<>> /\ cleaned[1] \in {LB, LC}
    THEN [found |-> TRUE, text |-> cleaned]
    ELSE LET array_start == Find(cleaned, LB)
             obj_start == Find(cleaned, LC)
         IN  IF array_start # 0
             THEN LET i == Closer(cleaned, array_start, 0, LB, RB)
                  IN  [found |-> TRUE,
                       text |-> IF i = 0 THEN cleaned
                                ELSE SubSeq(cleaned, array_start, i)]
             ELSE IF obj_start # 0
             THEN LET i == Closer(cleaned, obj_start, 0, LC, RC)
                  IN  [found |-> TRUE,
                       text |-> IF i = 0 THEN cleaned
                                ELSE <<LB>> \o SubSeq(cleaned, obj_start, i)
                                     \o <<RB>>]
             ELSE [found |-> FALSE, text |-> cleaned]

\* An LLM output: a string (a text) or None.
TextOutput(toks) == [isStr |-> TRUE, text |-> toks]

NoneOutput == [isStr |-> FALSE, text |-> <<>>]

\* Result of _validate_and_parse: None, or a list of normalized calls.
NotParsed == [none |-> TRUE, calls |-> <<>>]

Parsed(calls) == [none |-> FALSE, calls |-> calls]

\* Lines 293-303: the dicts of the list that carry a name.
NamedDicts(items) ==
    SelectSeq(items, LAMBDA item : item.k = "dict" /\ HasNameKey(item))

\* _validate_and_parse (lines 245-316).
ValidateAndParse(output) ==
    IF ~output.isStr \/ output.text = <<>> THEN NotParsed
    ELSE LET e == Extract(Unfence(Strip(output.text)))
             data == JsonLoads(e.text)
         IN  IF ~e.found THEN NotParsed
             ELSE IF data.k = "list" /\ data.items # <<>>
                  THEN IF NamedDicts(data.items) # <<>>
                       THEN Parsed(NormalizeToolList(NamedDicts(data.items)))
                       ELSE NotParsed
             ELSE IF data.k = "dict" /\ HasNameKey(data)
                  THEN Parsed(<<NormalizeSingle(data)>>)
             ELSE NotParsed

(***************************************************************************)
(* Two-stage LLM agent (agent_module.DevOpsAgent)                          *)
(***************************************************************************)

\* Largest max_retries a DevOpsAgent is constructed with (default: 2).
MaxRetries == 2

\* A tool descriptor of tools_schema.
Schema(name, required) ==
    [name |-> name, parameters |-> [required |-> required]]

\* The registered tools (k8s_tools/*.py: name, get_parameters_schema).
Registry ==
    << Schema("local_k8s_list_pods", <<>>),
       Schema("local_k8s_describe_pod", <<"pod_name">>),
       Schema("local_k8s_list_nodes", <<>>) >>

RegistryNames == { Registry[i].name : i \in 1..Len(Registry) }

\* The tools_schema values passed to forward: all tools, or the retrieved
\* ones.
ToolsSchemas == { Registry, SubSeq(Registry, 1, 1) }

\* Line 355: schema_map = {t['name']: t for t in tools_schema}
SchemaNames(schema) == { schema[i].name : i \in 1..Len(schema) }

SchemaOf(schema, name) ==
    schema[CHOOSE i \in 1..Len(schema) :
               /\ schema[i].name = name
               /\ \A j \in (i + 1)..Len(schema) : schema[j].name # name]

\* Result of _validate_semantics: (True, ""), (False, message), or an
\* exception.
NoSemError == [kind |-> "", name |-> JNone, req |-> ""]

SemValid == [raises |-> FALSE, ok |-> TRUE, error |-> NoSemError, text |-> ""]

SemInvalid(kind, name, req) ==
    [raises |-> FALSE, ok |-> FALSE,
     error |-> [kind |-> kind, name |-> name, req |-> req], text |-> ""]

SemRaises(text) ==
    [raises |-> TRUE, ok |-> FALSE, error |-> NoSemError, text |-> text]

\* Line 373, "req in args": a key of a dict, an element of a list, a
\* substring of a str (the strings of the model contain a parameter name
\* only when they are that name).
InArgs(req, args) ==
    CASE args.k = "dict" -> Has(args, req)
      [] args.k = "list" ->
            \E i \in 1..Len(args.items) : args.items[i] = JStr(req)
      [] args.k = "str" -> args.s = req
      [] OTHER -> FALSE

\* Lines 371-374: the first required parameter that is missing.
RECURSIVE CheckRequired(_, _, _)
CheckRequired(name, required, args) ==
    IF required = <<>> THEN SemValid
    ELSE IF args.k \notin {"dict", "list", "str"}
         THEN SemRaises("argument of type 'int' is not iterable")
    ELSE IF ~InArgs(Head(required), args)
         THEN SemInvalid("missing", name, Head(required))
    ELSE CheckRequired(name, Tail(required), args)

\* _validate_semantics (lines 349-376).
RECURSIVE ValidateSemantics(_, _)
ValidateSemantics(tool_calls, schema) ==
    IF tool_calls = <<>> THEN SemValid
    ELSE LET call == Head(tool_calls)
             r == CheckRequired(call.name,
                                SchemaOf(schema, call.name.s).parameters.required,
                                call.arguments)
         IN  IF call.name.k \in {"list", "dict"}
             THEN SemRaises("unhashable type")
             ELSE IF call.name.k # "str" \/ call.name.s \notin SchemaNames(schema)
             THEN SemInvalid("not_exist", call.name, "")
             ELSE IF r.raises \/ ~r.ok THEN r
             ELSE ValidateSemantics(Tail(tool_calls), schema)

\* Line 405: re.findall on one token of the text, for the pattern
\* (remote_k8s_\w+|k8s_\w+|docker_\w+); "" when the token has no match.
ToolPattern(v) ==
    CASE v = "local_k8s_list_pods" -> "k8s_list_pods"
      [] v = "local_k8s_describe_pod" -> "k8s_describe_pod"
      [] v = "local_k8s_list_nodes" -> "k8s_list_nodes"
      [] v = "remote_k8s_list_pods" -> "remote_k8s_list_pods"
      [] v = "docker_prune_all" -> "docker_prune_all"
      [] OTHER -> ""

\* Lines 402-409: the first match in the text.
RECURSIVE FirstToolPattern(_)
FirstToolPattern(toks) ==
    IF toks = <<>> THEN ""
    ELSE IF Head(toks).t \in {"s", "w"} /\ ToolPattern(Head(toks).v) # ""
         THEN ToolPattern(Head(toks).v)
    ELSE FirstToolPattern(Tail(toks))

\* The local variable prediction: unbound, or a dspy.Prediction.
Unbound ==
    [bound |-> FALSE, stage |-> "", tool_calls |-> NoneOutput,
     marker |-> FALSE, validated_calls |-> <<>>]

Prediction(stage, raw) ==
    [bound |-> TRUE, stage |-> stage, tool_calls |-> raw,
     marker |-> FALSE, validated_calls |-> <<>>]

\* Lines 177 and 231: prediction._validated_calls = validated
Marked(pred, validated) ==
    [pred EXCEPT !.marker = TRUE, !.validated_calls = validated]

\* parse_dspy_tool_calls (lines 382-415) of a prediction object.
ParsePredictionObject(pred) ==
    IF pred.marker THEN pred.validated_calls ELSE <<>>

\* parse_dspy_tool_calls (lines 382-415) of the value of tool_calls.
ParseRaw(output) ==
    IF ~output.isStr THEN <<>>
    ELSE IF ValidateAndParse(output).calls # <<>>
         THEN ValidateAndParse(output).calls
    ELSE IF FirstToolPattern(Strip(output.text)) # ""
         THEN <<ToolCall(JStr(FirstToolPattern(Strip(output.text))), EmptyDict)>>
    ELSE <<>>

\* Texts the LLM answers with.
CallObject(key, name, args) ==
    <<LC, S(key), COLON, S(name), COMMA, S("arguments"), COLON>> \o args
        \o <<RC>>

ListPodsText ==
    <<LB>> \o CallObject("name", "local_k8s_list_pods", <<LC, RC>>) \o <<RB>>

LLMTexts ==
    { ListPodsText,
      <<LB>> \o CallObject("name", "local_k8s_describe_pod",
                           <<LC, S("pod_name"), COLON, S("web"), RC>>) \o <<RB>>,
      <<LB>> \o CallObject("tool", "local_k8s_describe_pod", <<LC, RC>>)
          \o <<RB>>,
      <<LB>> \o CallObject("name", "local_k8s_describe_pod",
                           <<LB, S("pod_name"), RB>>) \o <<RB>>,
      <<LB>> \o CallObject("name", "tool_A", <<LC, S("x"), COLON, D(1), RC>>)
          \o <<RB>>,
      <<LB, LC, S("name"), COLON, LB, S("local_k8s_list_pods"), RB, RC, RB>>,
      <<NL, W("Sure"), FENCE, W("json"), NL>> \o ListPodsText \o <<NL, FENCE, NL>>,
      <<FENCE, W("json"), NL>> \o ListPodsText \o <<NL, FENCE>>,
      CallObject("name", "local_k8s_list_nodes", <<LC, RC>>),
      <<W("Use"), W("local_k8s_list_pods")>>,
      <<W("Sorry")>>,
      <<>> }

\* What one LLM call does: it raises, or it returns a prediction whose
\* tool_calls is a text or None.
Answer(raw) == [raises |-> FALSE, text |-> "", tool_calls |-> raw]

Raise(text) == [raises |-> TRUE, text |-> text, tool_calls |-> NoneOutput]

LLMResponses ==
    { Answer(TextOutput(t)) : t \in LLMTexts }
        \cup { Answer(NoneOutput), Raise("timeout"), Raise("") }

\* The values of last_error (lines 199, 234, 237, 240).
NoError == [kind |-> "none", text |-> "", sem |-> NoSemError]

SemanticError(e) == [kind |-> "semantic", text |-> "", sem |-> e]

ParseError == [kind |-> "parse", text |-> "", sem |-> NoSemError]

ExceptionError(text) == [kind |-> "exception", text |-> text, sem |-> NoSemError]

\* Truth value of last_error: None and "" are false.
ErrorTruthy(e) ==
    e.kind \in {"semantic", "parse"} \/ (e.kind = "exception" /\ e.text # "")

\* The query without a hint, whatever the error.
ModifiedQueryMutant(e, n) == [hint |-> FALSE, error |-> NoError]

\* Lines 203-205: modified_query.
ModifiedQuery(e, n) ==
    IF ErrorTruthy(e) /\ n > 0 THEN [hint |-> TRUE, error |-> e]
    ELSE [hint |-> FALSE, error |-> NoError]

\* Number of Stage B attempts, doubled retries.
StageBAttemptsMutant(retries) == 2 * retries + 2

\* Line 200: range(self.max_retries + 1)
StageBAttempts(retries) == retries + 1

\* Lines 170-187 and 223-237: what one attempt makes of the LLM response.
\* valid: return prediction; else the error of the attempt.
Attempt(stage, resp, schema) ==
    IF resp.raises
    THEN [valid |-> FALSE, bound |-> FALSE, pred |-> Unbound,
          error |-> ExceptionError(resp.text)]
    ELSE LET pred == Prediction(stage, resp.tool_calls)
             validated == ValidateAndParse(resp.tool_calls).calls
             sem == ValidateSemantics(validated, schema)
         IN  IF validated = <<>>
             THEN [valid |-> FALSE, bound |-> TRUE, pred |-> pred,
                   error |-> ParseError]
             ELSE IF sem.raises
             THEN [valid |-> FALSE, bound |-> TRUE, pred |-> pred,
                   error |-> ExceptionError(sem.text)]
             ELSE IF sem.ok
             THEN [valid |-> TRUE, bound |-> TRUE,
                   pred |-> Marked(pred, validated), error |-> NoError]
             ELSE [valid |-> FALSE, bound |-> TRUE, pred |-> pred,
                   error |-> SemanticError(sem.error)]

\* forward is called (lines 159-166).
ForwardCall(schema) ==
    /\ UNCHANGED NotAgent
    /\ agentPc \in {"idle", "returned", "raised"}
    /\ agentPc' = "fast"
    /\ tools_schema' = schema
    /\ attempt' = 0
    /\ last_error' = NoError
    /\ prediction' = Unbound
    /\ smartQueries' = <<>>
    /\ parsed' = <<>>
    /\ UNCHANGED max_retries

\* Stage A (lines 168-199): one call of the fast agent.
FastAttempt(resp) ==
    /\ UNCHANGED NotAgent
    /\ agentPc = "fast"
    /\ LET a == Attempt("A", resp, tools_schema)
       IN  /\ prediction' = IF a.bound THEN a.pred ELSE prediction
           /\ agentPc' = IF a.valid THEN "returned" ELSE "smart"
    /\ UNCHANGED <<max_retries, tools_schema, attempt, last_error,
                   smartQueries, parsed>>

\* Stage B (lines 200-243): one iteration of the loop; the last iteration
\* falls through to "return prediction", which raises UnboundLocalError
\* when no LLM call of the forward call has returned.
SmartAttempt(resp) ==
    /\ UNCHANGED NotAgent
    /\ agentPc = "smart"
    /\ attempt < StageBAttempts(max_retries)
    /\ smartQueries' = Append(smartQueries, ModifiedQuery(last_error, attempt))
    /\ LET a == Attempt("B", resp, tools_schema)
           pred == IF a.bound THEN a.pred ELSE prediction
       IN  /\ prediction' = pred
           /\ last_error' = IF a.valid THEN last_error ELSE a.error
           /\ attempt' = IF a.valid THEN attempt ELSE attempt + 1
           /\ agentPc' = IF a.valid THEN "returned"
                         ELSE IF attempt + 1 < StageBAttempts(max_retries)
                              THEN "smart"
                         ELSE IF pred.bound THEN "returned" ELSE "raised"
    /\ UNCHANGED <<max_retries, tools_schema, parsed>>

\* parse_dspy_tool_calls on the prediction that forward returned.
ParsePrediction ==
    /\ UNCHANGED NotAgent
    /\ agentPc = "returned"
    /\ parsed' = ParsePredictionObject(prediction)
    /\ UNCHANGED <<agentPc, max_retries, tools_schema, attempt, last_error,
                   prediction, smartQueries>>

\* parse_dspy_tool_calls on the tool_calls of the prediction that forward
\* returned.
ParseToolCalls ==
    /\ UNCHANGED NotAgent
    /\ agentPc = "returned"
    /\ parsed' = ParseRaw(prediction.tool_calls)
    /\ UNCHANGED <<agentPc, max_retries, tools_schema, attempt, last_error,
                   prediction, smartQueries>>

AgentConstructed(retries) ==
    /\ agentPc = "idle"
    /\ max_retries = retries
    /\ tools_schema = <<>>
    /\ attempt = 0
    /\ last_error = NoError
    /\ prediction = Unbound
    /\ smartQueries = <<>>
    /\ parsed = <<>>

AgentInit == \E retries \in 0..MaxRetries : AgentConstructed(retries)

AgentIdle == AgentConstructed(MaxRetries)

AgentNext ==
    \/ \E schema \in ToolsSchemas : ForwardCall(schema)
    \/ \E resp \in LLMResponses : FastAttempt(resp)
    \/ \E resp \in LLMResponses : SmartAttempt(resp)
    \/ ParsePrediction
    \/ ParseToolCalls

(***************************************************************************)
(* Intent router (router.IntentRouter)                                     *)
(***************************************************************************)

\* Number of route calls that are explored.
MaxRoutes == 2

\* Threshold of the intent tier (router.py line 202): 0.82.
IntentThreshold == Score(41, 50)

\* Queries passed to route.
RouterQueries ==
    { "  ", "list nodes", "list pods", "local describe pod web",
      "pods please", " pods please ", "which pods" }

\* query.strip() (line 139) on the queries of the model.
StripQuery(query) ==
    CASE query = "  " -> ""
      [] query = " pods please " -> "pods please"
      [] OTHER -> query

\* get_embeddings(query) (line 190): with "pods please" = (3,4,0,0) the
\* intents below are at cosine 0.80, 0.82 and 0.86, and with "which pods"
\* = (8,6,0,0) at 0.88, 0.86 and 0.82.
RouterEmb(query) ==
    CASE query = "pods please" -> <<3, 4, 0, 0>>
      [] query = "which pods" -> <<8, 6, 0, 0>>
      [] OTHER -> <<0, 0, 0, 10>>

\* SemanticIntent (lines 26-31).
SemanticIntent(text, tool, args, embedding) ==
    [text |-> text, tool |-> tool, args |-> args, embedding |-> embedding]

NodesIntent ==
    SemanticIntent("show cluster nodes", "local_k8s_list_nodes", NoArgs,
                   <<8, 4, 4, 2>>)

PodsIntent ==
    SemanticIntent("what pods are running", "local_k8s_list_pods", NoArgs,
                   <<7, 5, 5, 1>>)

DescribeIntent ==
    SemanticIntent("details of pod web", "local_k8s_describe_pod",
                   [pod_name |-> "web"], <<5, 7, 5, 1>>)

\* The "semantic" lists of the intents file.
IntentLists ==
    { <<>>, <<NodesIntent, PodsIntent>>, <<PodsIntent, DescribeIntent>>,
      <<DescribeIntent, NodesIntent, PodsIntent>> }

\* A value of a template's args: a literal, or a "{group}" placeholder.
Literal(text) == [placeholder |-> "", text |-> text]

Placeholder(group) == [placeholder |-> group, text |-> ""]

Template(name, pattern, tool, args) ==
    [name |-> name, pattern |-> pattern, tool |-> tool, args |-> args,
     compiled |-> TRUE]

\* The "templates" list of the intents file.
ManualTemplates ==
    << Template("list_pods", "list pods", "local_k8s_list_pods", NoArgs),
       Template("describe_any", "describe pod (?P<pod>.+)",
                "local_k8s_describe_pod", [pod_name |-> Placeholder("name")]) >>

\* infer_template (tool_indexer.py lines 139-161) for local_k8s_list_pods
\* and local_k8s_describe_pod.
AutoTemplates ==
    << Template("auto_local_k8s_list_pods", "local (?:list|show) (?:all )?pods",
                "local_k8s_list_pods", NoArgs),
       Template("auto_local_k8s_list_nodes", "local (?:list|show) (?:all )?nodes",
                "local_k8s_list_nodes", NoArgs) >>

DescribeTemplate ==
    Template("describe_pod", "describe (?:the )?(?:pod )?(?P<pod>[\\w-]+)",
             "local_k8s_describe_pod",
             [pod_name |-> Placeholder("pod"), namespace |-> Literal("default")])

\* The auto templates first, all of them.
LoadTemplatesMutant(manual, auto) == auto \o manual

\* Lines 63-75 of load_intents: the manual templates, then the auto
\* templates of tools without a manual template.
LoadTemplates(manual, auto) ==
    manual \o SelectSeq(auto, LAMBDA at :
                 \A i \in 1..Len(manual) : manual[i].tool # at.tool)

NoMatch == [matched |-> FALSE, groups |-> <<>>]

Match(groups) == [matched |-> TRUE, groups |-> groups]

\* Line 155: compiled_pattern.fullmatch(query) or .search(query), and
\* match.groupdict(), for the patterns and queries of the model.
RegexMatch(pattern, query) ==
    CASE pattern = "list pods" /\ query = "list pods" -> Match(<<>>)
      [] pattern = "describe pod (?P<pod>.+)"
           /\ query = "local describe pod web" -> Match([pod |-> "web"])
      [] pattern = "describe (?:the )?(?:pod )?(?P<pod>[\\w-]+)"
           /\ query = "local describe pod web" -> Match([pod |-> "web"])
      [] OTHER -> NoMatch

\* Lines 174-180: v.format(**groups) raises KeyError for a placeholder that
\* is not a named group of the pattern.
Interpolates(raw_args, groups) ==
    \A k \in DOMAIN raw_args :
        raw_args[k].placeholder # "" => raw_args[k].placeholder \in DOMAIN groups

Interpolate(raw_args, groups) ==
    [k \in DOMAIN raw_args |->
        IF raw_args[k].placeholder # "" THEN groups[raw_args[k].placeholder]
        ELSE raw_args[k].text]

\* What route returns: None, or a list of calls; or it raises.
NoRoute(tier) == [raises |-> FALSE, none |-> TRUE, calls |-> <<>>, tier |-> tier]

Routed(calls, tier) ==
    [raises |-> FALSE, none |-> FALSE, calls |-> calls, tier |-> tier]

RouteRaises == [raises |-> TRUE, none |-> TRUE, calls |-> <<>>, tier |-> "template"]

\* RegexRouter.route(query) (lines 143-149).
SmartMatch(query) ==
    IF query = "list nodes"
    THEN <<Call("local_k8s_list_nodes", NoArgs)>>
    ELSE <<>>

\* Lines 154-185: the first template that matches and interpolates; a
\* template without compiled_pattern raises KeyError.
RECURSIVE TemplateScan(_, _)
TemplateScan(ts, query) ==
    IF ts = <<>> THEN NoRoute("template")
    ELSE IF ~Head(ts).compiled THEN RouteRaises
    ELSE LET m == RegexMatch(Head(ts).pattern, query)
         IN  IF m.matched /\ Interpolates(Head(ts).args, m.groups)
             THEN Routed(<<Call(Head(ts).tool,
                                Interpolate(Head(ts).args, m.groups))>>,
                         "template")
             ELSE TemplateScan(Tail(ts), query)

\* Lines 192-199: the scan of the intents, started from (-1.0, None).
RECURSIVE IntentScan(_, _, _)
IntentScan(intents, query_emb, best) ==
    IF intents = <<>> THEN best
    ELSE LET score == CosineSimilarity(query_emb, Head(intents).embedding)
         IN  IntentScan(Tail(intents), query_emb,
                        IF ScoreGT(score, best.best_score)
                        THEN [best_score |-> score, found |-> TRUE,
                              best_intent |-> Head(intents)]
                        ELSE best)

NoIntent ==
    [best_score |-> MinusOne, found |-> FALSE, best_intent |-> PodsIntent]

\* Line 202 with >= in place of >.
IsIntentHitMutant(best_score) == ScoreGE(best_score, IntentThreshold)

\* Line 202: best_score > 0.82
IsIntentHit(best_score) == ScoreGT(best_score, IntentThreshold)

\* Lines 189-207: the intent tier.
IntentTier(intents, query, embOk) ==
    IF intents = <<>> \/ ~embOk THEN NoRoute("fallback")
    ELSE LET best == IntentScan(intents, RouterEmb(query), NoIntent)
         IN  IF IsIntentHit(best.best_score)
             THEN Routed(<<Call(best.best_intent.tool, best.best_intent.args)>>,
                         "intent")
             ELSE NoRoute("fallback")

\* The body of route (lines 139-207).
RouteBody(ts, intents, raw_query, embOk) ==
    LET query == StripQuery(raw_query)
    IN  IF query = "" THEN NoRoute("empty")
        ELSE IF SmartMatch(query) # <<>> THEN Routed(SmartMatch(query), "smart")
        ELSE IF TemplateScan(ts, query).raises \/ ~TemplateScan(ts, query).none
             THEN TemplateScan(ts, query)
        ELSE IntentTier(intents, query, embOk)

NoRouteCall ==
    [called |-> FALSE, query |-> "", cached |-> FALSE, embOk |-> FALSE,
     result |-> NoRoute("")]

\* route (lines 133-207): lru_cache returns the value of an earlier call
\* with the same query; a call that raises is not cached.
Route(query, embOk) ==
    /\ UNCHANGED NotRouter
    /\ routeCalls < MaxRoutes
    /\ routeCalls' = routeCalls + 1
    /\ IF query \in DOMAIN routeCache
       THEN /\ lastRoute' = [called |-> TRUE, query |-> query, cached |-> TRUE,
                             embOk |-> embOk, result |-> routeCache[query]]
            /\ UNCHANGED routeCache
       ELSE LET r == RouteBody(templates, semantic_intents, query, embOk)
            IN  /\ lastRoute' = [called |-> TRUE, query |-> query,
                                 cached |-> FALSE, embOk |-> embOk, result |-> r]
                /\ routeCache' = IF r.raises THEN routeCache
                                 ELSE (query :> r) @@ routeCache
    /\ UNCHANGED <<templates, semantic_intents>>

\* IntentRouter.__init__ and load_intents (lines 44-131).
RouterConstructed(manual, auto, semantic) ==
    /\ templates = LoadTemplates(manual, auto)
    /\ semantic_intents = semantic
    /\ routeCache = <<>>
    /\ routeCalls = 0
    /\ lastRoute = NoRouteCall

RouterInit ==
    \E semantic \in IntentLists :
        RouterConstructed(ManualTemplates, AutoTemplates \o <<DescribeTemplate>>,
                          semantic)

RouterIdle == RouterConstructed(<<>>, <<>>, <<>>)

RouterNext == \E query \in RouterQueries, embOk \in BOOLEAN : Route(query, embOk)

(***************************************************************************)
(* The router with its callers (router.IntentRouter, cli_helper)           *)
(***************************************************************************)

\* A second authored template for describe, with the group it captures.
DescribeByName ==
    Template("describe_by_name", "describe (?:the )?(?:pod )?(?P<pod>[\\w-]+)",
             "local_k8s_describe_pod", [pod_name |-> Placeholder("pod")])

\* The "templates" lists of the intents files.
ManualTemplateLists ==
    { <<>>, <<ManualTemplates[1]>>, ManualTemplates,
      <<ManualTemplates[2], DescribeByName>> }

InferredTemplates == AutoTemplates \o <<DescribeTemplate>>

\* cli_helper lines 93-104: the caller that holds the list route returned
\* renames the ambiguous tool in it; lru_cache holds the same list.
CallerRenames(ambiguous_tool, selected_tool) ==
    /\ UNCHANGED NotRouter
    /\ lastRoute.called
    /\ ~lastRoute.result.raises
    /\ lastRoute.query \in DOMAIN routeCache
    /\ \E i \in 1..Len(routeCache[lastRoute.query].calls) :
           routeCache[lastRoute.query].calls[i].name = ambiguous_tool
    /\ routeCache' =
           [routeCache EXCEPT ![lastRoute.query].calls =
               [i \in 1..Len(@) |->
                   IF @[i].name = ambiguous_tool
                   THEN [@[i] EXCEPT !.name = selected_tool]
                   ELSE @[i]]]
    /\ UNCHANGED <<templates, semantic_intents, routeCalls, lastRoute>>

RouterWithCallersInit ==
    \E manual \in ManualTemplateLists, semantic \in IntentLists :
        RouterConstructed(manual, InferredTemplates, semantic)

RouterWithCallersNext ==
    \/ RouterNext
    \/ \E ambiguous_tool, selected_tool \in RegistryNames :
           CallerRenames(ambiguous_tool, selected_tool)

(***************************************************************************)
(* Startup sync of the tool index (tool_indexer.py, rag/tool_retriever.py) *)
(***************************************************************************)

\* The tools a release can register.
RegisteredTools == {ToolPool[1], ToolPool[2]}

\* What the embedding service does during one sync run: it answers every
\* request, or none.
EmbeddingService(reg) == {reg, {}}

\* Number of sync runs that are explored.
MaxSyncs == 2

\* get_all_tools (lines 87-105): the registered tools, in registry order.
GetAllTools(reg) == SelectSeq(ToolPool, LAMBDA n : n \in reg)

\* len(tool['description']) of a registered tool.
ToolDescLen(n) == IF n = ToolPool[1] THEN 201 ELSE 0

\* Lines 190-209: the tools without an embedding in the file whose
\* generate_embedding call returned a vector (embOk: the tools for which
\* the embedding service answers).
NewEmbeddings(reg, file, embOk) == (reg \ file) \cap embOk

\* Lines 226-228, re-adding every registered tool that has an embedding.
MissingFromIndexMutant(reg, st, embs) ==
    SelectSeq(GetAllTools(reg), LAMBDA n : n \in embs)

\* Lines 223-228: indexed_tools is read once; the tools to add are the
\* registered tools that are not indexed and have an embedding.
MissingFromIndex(reg, st, embs) ==
    SelectSeq(GetAllTools(reg),
              LAMBDA n : n \notin DOMAIN st.metadata.tools /\ n \in embs)

\* Lines 226-236: one add per tool to index.  faiss_synced counts the add
\* calls that returned (add returns False without an index); index.add
\* raises on an embedding of another dimension, which ends the loop at
\* line 234.
RECURSIVE SyncFaiss(_, _, _)
SyncFaiss(st, names, dimOk) ==
    IF names = <<>> THEN [st |-> st, faiss_synced |-> 0]
    ELSE IF st.index.present /\ ~dimOk THEN [st |-> st, faiss_synced |-> 0]
    ELSE LET rest == SyncFaiss(Add(st, Head(names), dimOk,
                                   ToolDescLen(Head(names))),
                               Tail(names), dimOk)
         IN  [st |-> rest.st, faiss_synced |-> rest.faiss_synced + 1]

\* What a sync run saw and did.
SyncRun(kind, reg, served, dimOk, nNew, nSynced, before, after) ==
    [kind |-> kind, registry |-> reg, embedded |-> served, dimOk |-> dimOk,
     new_embeddings |-> nNew, faiss_synced |-> nSynced,
     filesKept |-> (after.disk = before),
     indexed |-> DOMAIN after.metadata.tools]

\* sync_tool_index (lines 164-260), steps 1 to 6.
SyncToolIndex(embOk, dimOk) ==
    /\ UNCHANGED NotSync
    /\ Len(syncs) < MaxSyncs
    /\ LET new == NewEmbeddings(registry, embeddingsFile, embOk)
           embs == embeddingsFile \cup new
           r == SyncFaiss(Current, MissingFromIndex(registry, Current, embs),
                          dimOk)
       IN  /\ embeddingsFile' = embs
           /\ Becomes(r.st)
           /\ syncs' = Append(syncs,
                  SyncRun("indexer", registry,
                          (registry \ embeddingsFile) \subseteq embOk, dimOk,
                          Cardinality(new), r.faiss_synced, faissDisk, r.st))
    /\ UNCHANGED registry

\* The orders in which the tasks of asyncio.gather reach faiss_index.add.
Orders(names) ==
    { o \in [1..Cardinality(names) -> names] :
        \A i, j \in 1..Cardinality(names) : o[i] = o[j] => i = j }

\* ToolRetriever._sync_tools_to_faiss (lines 65-89): one task per tool that
\* is not indexed; each adds its tool when its embedding arrives.
SyncToolsToFaiss(embOk, dimOk) ==
    /\ UNCHANGED NotSync
    /\ Len(syncs) < MaxSyncs
    /\ index.present
    /\ LET todo == (registry \ DOMAIN metadata.tools) \cap embOk
       IN  \E order \in Orders(todo) :
             LET r == SyncFaiss(Current, order, dimOk)
             IN  /\ Becomes(r.st)
                 /\ syncs' = Append(syncs,
                        SyncRun("retriever", registry,
                                (registry \ DOMAIN metadata.tools)
                                    \subseteq embOk, dimOk,
                                0, r.faiss_synced, faissDisk, r.st))
    /\ UNCHANGED <<registry, embeddingsFile>>

\* A release with another set of tools: a new process, which constructs
\* its index from the files.
ChangeRegistry(reg) ==
    /\ UNCHANGED NotSync
    /\ reg # registry
    /\ registry' = reg
    /\ Becomes(LoadOrCreate(faiss, faissDisk))
    /\ UNCHANGED <<embeddingsFile, syncs>>

SyncStarted(reg) ==
    /\ registry = reg
    /\ embeddingsFile = {}
    /\ syncs = <<>>

\* A first start: no embeddings file.
SyncInit == \E reg \in SUBSET RegisteredTools : reg # {} /\ SyncStarted(reg)

SyncIdle == SyncStarted(RegisteredTools)

SyncNext ==
    \/ \E embOk \in EmbeddingService(registry), dimOk \in BOOLEAN :
           SyncToolIndex(embOk, dimOk)
    \/ \E embOk \in EmbeddingService(registry), dimOk \in BOOLEAN :
           SyncToolsToFaiss(embOk, dimOk)
    \/ \E reg \in SUBSET RegisteredTools : reg # {} /\ ChangeRegistry(reg)

(***************************************************************************)
(* Two processes on the same index files (rag/faiss_index.py)              *)
(***************************************************************************)

\* Number of add calls of one process that are explored.
MaxProcAdds == 2

Procs == {1, 2}

\* The index of a process: its in-memory state and the shared files.
ProcState(p) ==
    IF p = 1 THEN Current ELSE FaissState(peer.index, peer.metadata, faissDisk)

\* add (lines 140-166) in process p: add works on the index the process
\* loaded, and _save takes the file lock for its two renames only.
ProcAdd(p, tool_name, descLen) ==
    /\ UNCHANGED NotProcs
    /\ Len(procAdds[p]) < MaxProcAdds
    /\ LET st == Add(ProcState(p), tool_name, TRUE, descLen)
       IN  /\ faissDisk' = st.disk
           /\ IF p = 1
              THEN /\ index' = st.index
                   /\ metadata' = st.metadata
                   /\ UNCHANGED peer
              ELSE /\ peer' = [index |-> st.index, metadata |-> st.metadata]
                   /\ UNCHANGED <<index, metadata>>
    /\ procAdds' = [procAdds EXCEPT ![p] = Append(@, tool_name)]
    /\ UNCHANGED faiss

\* The files a former run left: none, or an index of one tool.
SavedIndexes ==
    { NoFaissFiles,
      Add(LoadOrCreate(TRUE, NoFaissFiles), ToolPool[1], TRUE, 0).disk }

\* Both processes have constructed their index from the same files.
ProcsLoaded(disk) ==
    /\ faiss = TRUE
    /\ faissDisk = disk
    /\ index = LoadOrCreate(TRUE, disk).index
    /\ metadata = LoadOrCreate(TRUE, disk).metadata
    /\ peer = [index |-> LoadOrCreate(TRUE, disk).index,
               metadata |-> LoadOrCreate(TRUE, disk).metadata]
    /\ procAdds = [p \in Procs |-> <<>>]

ProcsInit == \E disk \in SavedIndexes : ProcsLoaded(disk)

\* No second process.
ProcsIdle ==
    /\ peer = [index |-> NoIndex, metadata |-> EmptyMetadata]
    /\ procAdds = [p \in Procs |-> <<>>]

ProcsNext ==
    \E p \in Procs, n \in FaissToolNames, d \in DescLengths : ProcAdd(p, n, d)

(***************************************************************************)
(* Smart MCP router (smart_router.py)                                      *)
(***************************************************************************)

MCP_DOCKER == "docker"
MCP_K8S_LOCAL == "k8s_local"
MCP_K8S_REMOTE == "k8s_remote"
MCP_CHAT == "chat"

MCPs == {MCP_DOCKER, MCP_K8S_LOCAL, MCP_K8S_REMOTE, MCP_CHAT}

\* Strings are sequences of characters here: "k in q_lower" is a substring
\* test and q_lower.split() cuts at the blanks.

\* Lines 21-23.
DockerKeywords ==
    { <<"d", "o", "c", "k", "e", "r">>,
      <<"c", "o", "n", "t", "a", "i", "n", "e", "r">>,
      <<"i", "m", "a", "g", "e">>,
      <<"v", "o", "l", "u", "m", "e">>,
      <<"n", "e", "t", "w", "o", "r", "k">>,
      <<"c", "o", "m", "p", "o", "s", "e">> }

\* Lines 24-26.
K8sLocalKeywords ==
    { <<"l", "o", "c", "a", "l">>,
      <<"m", "i", "n", "i", "k", "u", "b", "e">>,
      <<"k", "i", "n", "d">>,
      <<"d", "e", "s", "k", "t", "o", "p">>,
      <<"l", "o", "c", "a", "l", "h", "o", "s", "t">> }

\* Lines 27-29.
K8sRemoteKeywords ==
    { <<"r", "e", "m", "o", "t", "e">>,
      <<"c", "l", "u", "s", "t", "e", "r">>,
      <<"a", "w", "s">>,
      <<"g", "c", "p">>,
      <<"a", "z", "u", "r", "e">>,
      <<"c", "l", "o", "u", "d">>,
      <<"p", "r", "o", "d", "u", "c", "t", "i", "o", "n">>,
      <<"s", "t", "a", "g", "i", "n", "g">> }

\* Lines 30-32.
ChatKeywords ==
    { <<"h", "i">>,
      <<"h", "e", "l", "l", "o">>,
      <<"h", "e", "y">>,
      <<"h", "e", "l", "p">>,
      <<"w", "h", "o", " ", "a", "r", "e", " ", "y", "o", "u">>,
      <<"w", "h", "a", "t", " ", "i", "s", " ", "t", "h", "i", "s">>,
      <<"t", "h", "a", "n", "k", "s">>,
      <<"t", "h", "a", "n", "k", " ", "y", "o", "u">>,
      <<"b", "y", "e">>,
      <<"t", "e", "s", "t">>,
      <<"e", "x", "p", "l", "a", "i", "n">>,
      <<"w", "h", "y">> }

\* self.keywords (lines 20-33).
Keywords(mcp) ==
    CASE mcp = MCP_DOCKER -> DockerKeywords
      [] mcp = MCP_K8S_LOCAL -> K8sLocalKeywords
      [] mcp = MCP_K8S_REMOTE -> K8sRemoteKeywords
      [] mcp = MCP_CHAT -> ChatKeywords

\* self.k8s_common (lines 36-39).
k8s_common ==
    { <<"p", "o", "d">>,
      <<"n", "o", "d", "e">>,
      <<"d", "e", "p", "l", "o", "y", "m", "e", "n", "t">>,
      <<"s", "e", "r", "v", "i", "c", "e">>,
      <<"n", "a", "m", "e", "s", "p", "a", "c", "e">>,
      <<"r", "e", "p", "l", "i", "c", "a", "s", "e", "t">>,
      <<"c", "o", "n", "f", "i", "g", "m", "a", "p">>,
      <<"s", "e", "c", "r", "e", "t">>,
      <<"i", "n", "g", "r", "e", "s", "s">>,
      <<"p", "v", "c">>,
      <<"p", "v">>,
      <<"l", "o", "g">>,
      <<"l", "o", "g", "s">>,
      <<"d", "e", "s", "c", "r", "i", "b", "e">>,
      <<"i", "p">>,
      <<"p", "o", "r", "t">>,
      <<"s", "t", "a", "t", "u", "s">>,
      <<"p", "h", "a", "s", "e">>,
      <<"l", "a", "b", "e", "l", "e", "d">>,
      <<"l", "a", "b", "e", "l">>,
      <<"s", "e", "l", "e", "c", "t", "o", "r">>,
      <<"f", "i", "l", "t", "e", "r", "i", "n", "g">>,
      <<"f", "i", "l", "t", "e", "r">>,
      <<"p", "r", "o", "m", "o", "t", "e">>,
      <<"t", "r", "a", "c", "e">>,
      <<"d", "i", "f", "f">>,
      <<"u", "t", "i", "l", "i", "z", "a", "t", "i", "o", "n">>,
      <<"c", "o", "m", "p", "a", "r", "e">> }

\* self.context_indicators (lines 42-44).
context_indicators ==
    { <<"i", "t">>,
      <<"t", "h", "a", "t">>,
      <<"t", "h", "i", "s">>,
      <<"t", "h", "e", "m">>,
      <<"t", "h", "o", "s", "e">>,
      <<"h", "e", "r", "e">>,
      <<"t", "h", "e", "r", "e">>,
      <<"d", "e", "t", "a", "i", "l", "s">>,
      <<"m", "o", "r", "e">>,
      <<"d", "e", "s", "c", "r", "i", "b", "e">>,
      <<"t", "h", "e">> }

\* The queries that are routed.
SmartQueries ==
    { <<"l", "i", "s", "t", " ", "p", "o", "d", "s">>,
      <<"d", "e", "s", "c", "r", "i", "b", "e", " ", "i", "t">>,
      <<"d", "e", "s", "c", "r", "i", "b", "e", " ", "r", "e", "m", "o", "t",
        "e", " ", "n", "o", "d", "e">>,
      <<"d", "e", "s", "c", "r", "i", "b", "e", " ", "l", "o", "c", "a", "l",
        " ", "p", "o", "d">>,
      <<"c", "h", "e", "c", "k", " ", "s", "y", "s", "t", "e", "m", " ", "s",
        "t", "a", "t", "u", "s">>,
      <<"c", "h", "e", "c", "k", " ", "a", "l", "l">>,
      <<"L", "i", "s", "t", " ", "D", "o", "c", "k", "e", "r", " ", "c", "o",
        "n", "t", "a", "i", "n", "e", "r", "s">>,
      <<"s", "t", "o", "p", " ", "t", "h", "a", "t", " ", "c", "o", "n", "t",
        "a", "i", "n", "e", "r">>,
      <<"h", "i">>,
      <<"h", "e", "l", "l", "o", " ", "t", "h", "e", "r", "e">>,
      <<"w", "h", "y", " ", "i", "s", " ", "r", "e", "m", "o", "t", "e", " ",
        "d", "o", "w", "n">>,
      <<"s", "h", "o", "w", " ", "a", "w", "s", " ", "p", "o", "d", "s">>,
      <<"w", "h", "a", "t", " ", "a", "b", "o", "u", "t", " ", "a", "l", "l",
        " ", "o", "f", " ", "m", "y", " ", "s", "t", "u", "f", "f", " ", "n",
        "o", "w">>,
      <<"y", "o">> }

RemoteText == <<"r", "e", "m", "o", "t", "e">>

LocalText == <<"l", "o", "c", "a", "l">>

StatusText == <<"s", "t", "a", "t", "u", "s">>

CheckText == <<"c", "h", "e", "c", "k">>

\* self.context_cache.get_last_mcp values; "None" for no last backend and
\* for session_id = None.
SessionIds == {"s1"}

LastMcps == MCPs \cup {"None"}

\* What pulse.get_status("k8s_remote") gives: a status, or an exception.
PulseStatuses == {"healthy", "degraded", "disconnected", "error"}

\* k in q_lower: k is a substring of q_lower.
In(k, q_lower) ==
    \E i \in 1..(Len(q_lower) - Len(k) + 1) :
        \A j \in 1..Len(k) : q_lower[i + j - 1] = k[j]

\* any(k in q_lower for k in keywords)
MatchesAny(q_lower, keywords) == \E k \in keywords : In(k, q_lower)

\* len(q_lower.split()), for words separated by blanks: the positions at
\* which a word starts.
WordStarts(s) ==
    { i \in 1..Len(s) : s[i] # " " /\ (i = 1 \/ s[i - 1] = " ") }

\* w in q_lower.split(), for a word w without blanks: w stands in s between
\* blanks or the ends of s.
InSplit(w, s) ==
    \E i \in 1..(Len(s) - Len(w) + 1) :
        /\ i = 1 \/ s[i - 1] = " "
        /\ i + Len(w) - 1 = Len(s) \/ s[i + Len(w)] = " "
        /\ \A j \in 1..Len(w) : s[i + j - 1] = w[j]

\* Line 58: any(w in q_lower.split() for w in self.context_indicators)
IsFollowUp(q_lower) == \E w \in context_indicators : InSplit(w, q_lower)

\* Lines 59-63, never reading the context cache.
StickyContextMutant(q_lower, session_id, last) == {}

\* Lines 59-63: the sticky context.  last is what
\* context_cache.get_last_mcp(session_id) returns.
StickyContext(q_lower, session_id, last) ==
    IF session_id # "None" /\ IsFollowUp(q_lower) /\ last # "None"
    THEN {last} ELSE {}

\* Lines 66-69: the backends one of whose keywords is in the query.
SpecificKeywords(q_lower) ==
    { mcp \in MCPs : MatchesAny(q_lower, Keywords(mcp)) }

\* Lines 72-91, without the test of the common terms.
CommonK8sTermsMutant(q_lower, selected_mcps) ==
    IF /\ MCP_K8S_LOCAL \notin selected_mcps
       /\ MCP_K8S_REMOTE \notin selected_mcps
    THEN selected_mcps \cup {MCP_K8S_REMOTE, MCP_K8S_LOCAL}
    ELSE selected_mcps

\* Lines 72-99: a query with a common Kubernetes term and neither cluster
\* selected so far gets both clusters.
CommonK8sTerms(q_lower, selected_mcps) ==
    IF /\ MatchesAny(q_lower, k8s_common)
       /\ MCP_K8S_LOCAL \notin selected_mcps
       /\ MCP_K8S_REMOTE \notin selected_mcps
    THEN selected_mcps \cup {MCP_K8S_REMOTE, MCP_K8S_LOCAL}
    ELSE selected_mcps

\* Lines 102-110: the fallback when nothing matched.
Fallback(q_lower, selected_mcps) ==
    IF selected_mcps # {} THEN selected_mcps
    ELSE IF In(StatusText, q_lower) \/ In(CheckText, q_lower)
         THEN {MCP_DOCKER, MCP_K8S_LOCAL, MCP_K8S_REMOTE}
    ELSE IF Cardinality(WordStarts(q_lower)) > 5
         THEN {MCP_DOCKER, MCP_K8S_LOCAL, MCP_K8S_REMOTE, MCP_CHAT}
    ELSE {MCP_CHAT}

\* Line 118, taking no query for an explicit request.
IsExplicitRemoteMutant(q_lower) == FALSE

\* Line 118: is_explicit_remote = "remote" in q_lower
IsExplicitRemote(q_lower) == In(RemoteText, q_lower)

\* Lines 115-125: the disconnected remote backend is dropped; an exception
\* of the pulse leaves the selection as it is.
DropDisconnected(q_lower, selected_mcps, status) ==
    IF /\ MCP_K8S_REMOTE \in selected_mcps
       /\ ~IsExplicitRemote(q_lower)
       /\ status = "disconnected"
    THEN selected_mcps \ {MCP_K8S_REMOTE}
    ELSE selected_mcps

\* route (lines 46-127): the backends of the returned list.
RouteMcps(query, session_id, last, status) ==
    LET q_lower == Lower(query)
        sticky == StickyContext(q_lower, session_id, last)
        specific == sticky \cup SpecificKeywords(q_lower)
        common == CommonK8sTerms(q_lower, specific)
    IN  DropDisconnected(q_lower, Fallback(q_lower, common), status)

\* A route call: its arguments, the session's last backend and the pulse
\* status at the call, and the backends it returned.
SmartCall(q, sid, last, status, mcps) ==
    [called |-> TRUE, query |-> q, session_id |-> sid, last |-> last,
     status |-> status, mcps |-> mcps]

NoSmartCall ==
    [called |-> FALSE, query |-> <<>>, session_id |-> "None", last |-> "None",
     status |-> "healthy", mcps |-> {}]

SmartRoute(query, session_id) ==
    /\ UNCHANGED NotSmart
    /\ LET last == IF session_id = "None" THEN "None" ELSE last_mcp[session_id]
       IN  lastSmart' = SmartCall(query, session_id, last, pulseStatus,
                                  RouteMcps(query, session_id, last,
                                            pulseStatus))
    /\ UNCHANGED <<last_mcp, pulseStatus>>

\* context_cache.set_last_mcp(session_id, mcp) after a resolution, and
\* context_cache.clear(session_id) for "None".
SetLastMcp(session_id, mcp) ==
    /\ UNCHANGED NotSmart
    /\ last_mcp[session_id] # mcp
    /\ last_mcp' = [last_mcp EXCEPT ![session_id] = mcp]
    /\ lastSmart' = NoSmartCall
    /\ UNCHANGED pulseStatus

\* A pulse worker publishes the status of k8s_remote.
PulsePublish(status) ==
    /\ UNCHANGED NotSmart
    /\ pulseStatus # status
    /\ pulseStatus' = status
    /\ lastSmart' = NoSmartCall
    /\ UNCHANGED last_mcp

SmartInit ==
    /\ last_mcp = [s \in SessionIds |-> "None"]
    /\ pulseStatus = "healthy"
    /\ lastSmart = NoSmartCall

SmartIdle == SmartInit

SmartNext ==
    \/ \E q \in SmartQueries, sid \in SessionIds \cup {"None"} :
           SmartRoute(q, sid)
    \/ \E sid \in SessionIds, mcp \in LastMcps : SetLastMcp(sid, mcp)
    \/ \E status \in PulseStatuses : PulsePublish(status)

(***************************************************************************)
(* Backend client (mcp/client.call_tool_async)                             *)
(*                                                                         *)
(* A tool name is the sequence of its characters, so that startswith is    *)
(* computed.  A JSON object is a record; every JSON-RPC body carries "id". *)
(***************************************************************************)

StartsWith(name, prefix) ==
    /\ Len(prefix) <= Len(name)
    /\ \A i \in 1..Len(prefix) : name[i] = prefix[i]

MCP_URL == "http://localhost:8080"
K8S_MCP_URL == "http://localhost:8081"
REMOTE_K8S_MCP_URL == "http://localhost:8082"

ClientTools ==
    { <<"d", "o", "c", "k", "e", "r", "_", "l", "i", "s", "t", "_", "c", "o", "n", "t", "a", "i", "n", "e", "r", "s">>,
      <<"l", "o", "c", "a", "l", "_", "k", "8", "s", "_", "l", "i", "s", "t", "_", "p", "o", "d", "s">>,
      <<"k", "8", "s", "_", "l", "i", "s", "t", "_", "p", "o", "d", "s">>,
      <<"r", "e", "m", "o", "t", "e", "_", "k", "8", "s", "_", "l", "i", "s", "t", "_", "p", "o", "d", "s">>,
      <<"c", "h", "a", "t">> }

ClientArguments == {"none", "namespace"}

\* What the POST can do: raise while connecting or waiting, or answer with
\* a status and a body.
ConnectError == [kind |-> "ConnectError"]
TimeoutException == [kind |-> "TimeoutException"]
ReadError == [kind |-> "ReadError"]

ToolResult == [id |-> 1, result |-> [success |-> TRUE, output |-> "ok"]]
ToolFailure ==
    [id |-> 1, result |-> [success |-> FALSE, error |-> "no such pod"]]
RpcError ==
    [id |-> 1, error |-> [code |-> -32601, message |-> "Method not found"]]
NoResult == [id |-> 1]

JsonBodies == {ToolResult, ToolFailure, RpcError, NoResult}

HttpResponse(status, is_json, body) ==
    [kind |-> "response", status_code |-> status, is_json |-> is_json,
     body |-> body]

Statuses == {200, 404, 500}

Responses ==
    {ConnectError, TimeoutException, ReadError}
        \cup {HttpResponse(st, TRUE, b) : st \in Statuses, b \in JsonBodies}
        \cup {HttpResponse(st, FALSE, NoResult) : st \in Statuses}

Url(tool_name) ==
    IF \/ StartsWith(tool_name, <<"l", "o", "c", "a", "l", "_", "k", "8", "s", "_">>)
       \/ StartsWith(tool_name, <<"k", "8", "s", "_">>)
    THEN K8S_MCP_URL
    ELSE IF StartsWith(tool_name, <<"r", "e", "m", "o", "t", "e", "_", "k", "8", "s", "_">>)
    THEN REMOTE_K8S_MCP_URL
    ELSE MCP_URL

\* str(e) of the exceptions that reach the last except clause.
HTTPStatusError(status) ==
    IF status < 500 THEN <<"Client error", status>>
    ELSE <<"Server error", status>>

IsSuccessStatus(status) == status >= 200 /\ status < 300

\* response.raise_for_status() raises for every status outside 2xx.
RaiseForStatus(response) == ~IsSuccessStatus(response.status_code)

CallToolAsync(tool_name, arguments, response) ==
    LET url == Url(tool_name) IN
    IF response.kind = "ConnectError"
    THEN [success |-> FALSE,
          error |-> <<"Cannot connect to MCP server at ", url,
                      ". Is it running?">>]
    ELSE IF response.kind = "TimeoutException"
    THEN [success |-> FALSE, error |-> <<"Request timed out">>]
    ELSE IF response.kind = "ReadError"
    THEN [success |-> FALSE, error |-> <<"Async error: ", "ReadError">>]
    ELSE IF RaiseForStatus(response)
    THEN [success |-> FALSE,
          error |-> <<"Async error: ">>
                        \o HTTPStatusError(response.status_code)]
    ELSE IF ~response.is_json
    THEN [success |-> FALSE, error |-> <<"Async error: ", "JSONDecodeError">>]
    ELSE LET result == response.body IN
         IF "error" \in DOMAIN result
         THEN [success |-> FALSE, error |-> result.error,
               original_response |-> result]
         ELSE IF "result" \in DOMAIN result
         THEN result.result
         ELSE [success |-> FALSE, error |-> <<"No result returned">>]

NoClientCall == [called |-> FALSE]

CallTool(tool_name, arguments, response) ==
    /\ clientCall' = [called |-> TRUE, tool_name |-> tool_name,
                      arguments |-> arguments, response |-> response,
                      result |-> CallToolAsync(tool_name, arguments, response)]
    /\ UNCHANGED <<Components, risk, execRun, retrieval, pulse>>

ClientInit == clientCall = NoClientCall

ClientIdle == ClientInit

ClientNext ==
    \E tool_name \in ClientTools, arguments \in ClientArguments,
       response \in Responses :
        CallTool(tool_name, arguments, response)

(***************************************************************************)
(* Safety classifier (safety.is_dangerous, safety.analyze_risk)            *)
(***************************************************************************)

DANGEROUS_PREFIXES ==
    { <<"d", "o", "c", "k", "e", "r", "_", "s", "t", "o", "p">>,
      <<"d", "o", "c", "k", "e", "r", "_", "r", "m">>,
      <<"d", "o", "c", "k", "e", "r", "_", "p", "r", "u", "n", "e">>,
      <<"k", "8", "s", "_", "d", "e", "l", "e", "t", "e">>,
      <<"l", "o", "c", "a", "l", "_", "k", "8", "s", "_", "d", "e", "l", "e", "t", "e">>,
      <<"r", "e", "m", "o", "t", "e", "_", "k", "8", "s", "_", "d", "e", "l", "e", "t", "e">>,
      <<"r", "e", "m", "o", "t", "e", "_", "k", "8", "s", "_", "p", "r", "o", "m", "o", "t", "e">>,
      <<"r", "e", "m", "o", "t", "e", "_", "k", "8", "s", "_", "e", "x", "e", "c">> }

DANGEROUS_TOOLS_EXACT == { <<"d", "o", "c", "k", "e", "r", "_", "r", "u", "n", "_", "c", "o", "n", "t", "a", "i", "n", "e", "r">> }

\* The names of the tools of the three backends, and names next to them.
RiskTools ==
    { <<"d", "o", "c", "k", "e", "r", "_", "s", "t", "o", "p", "_", "c", "o", "n", "t", "a", "i", "n", "e", "r">>,
      <<"d", "o", "c", "k", "e", "r", "_", "s", "t", "o", "p">>,
      <<"d", "o", "c", "k", "e", "r", "_", "r", "m", "_", "c", "o", "n", "t", "a", "i", "n", "e", "r">>,
      <<"d", "o", "c", "k", "e", "r", "_", "r", "m", "i">>,
      <<"d", "o", "c", "k", "e", "r", "_", "p", "r", "u", "n", "e", "_", "i", "m", "a", "g", "e", "s">>,
      <<"d", "o", "c", "k", "e", "r", "_", "r", "u", "n", "_", "c", "o", "n", "t", "a", "i", "n", "e", "r">>,
      <<"d", "o", "c", "k", "e", "r", "_", "r", "u", "n", "_", "c", "o", "n", "t", "a", "i", "n", "e", "r", "_", "d", "e", "t", "a", "c", "h", "e", "d">>,
      <<"d", "o", "c", "k", "e", "r", "_", "r", "u", "n">>,
      <<"d", "o", "c", "k", "e", "r", "_", "l", "i", "s", "t", "_", "c", "o", "n", "t", "a", "i", "n", "e", "r", "s">>,
      <<"k", "8", "s", "_", "d", "e", "l", "e", "t", "e", "_", "p", "o", "d">>,
      <<"l", "o", "c", "a", "l", "_", "k", "8", "s", "_", "d", "e", "l", "e", "t", "e", "_", "p", "o", "d">>,
      <<"r", "e", "m", "o", "t", "e", "_", "k", "8", "s", "_", "d", "e", "l", "e", "t", "e", "_", "p", "o", "d">>,
      <<"r", "e", "m", "o", "t", "e", "_", "k", "8", "s", "_", "p", "r", "o", "m", "o", "t", "e", "_", "r", "e", "s", "o", "u", "r", "c", "e">>,
      <<"r", "e", "m", "o", "t", "e", "_", "k", "8", "s", "_", "e", "x", "e", "c">>,
      <<"l", "o", "c", "a", "l", "_", "k", "8", "s", "_", "e", "x", "e", "c">>,
      <<"l", "o", "c", "a", "l", "_", "k", "8", "s", "_", "l", "i", "s", "t", "_", "p", "o", "d", "s">>,
      <<"r", "e", "m", "o", "t", "e", "_", "k", "8", "s", "_", "l", "i", "s", "t", "_", "p", "o", "d", "s">>,
      <<"s", "t", "a", "g", "i", "n", "g", "_", "k", "8", "s", "_", "d", "e", "l", "e", "t", "e", "_", "p", "o", "d">>,
      <<"c", "h", "a", "t">> }

\* arguments: a dict of the tool's arguments.
RiskArguments ==
    { NoArgs,
      [container_id |-> "web"],
      [image |-> "nginx"],
      [command |-> "ls"],
      [cmd |-> "ps"],
      [command |-> "ls", cmd |-> "ps"],
      [name |-> "api", resource_type |-> "deployment"] }

\* arguments.get(key, default)
ArgGet(arguments, key, default) ==
    IF key \in DOMAIN arguments THEN arguments[key] ELSE default

IsDangerousMutant(tool_name) ==
    \E p \in DANGEROUS_PREFIXES : StartsWith(tool_name, p)

IsDangerous(tool_name) ==
    \/ tool_name \in DANGEROUS_TOOLS_EXACT
    \/ \E p \in DANGEROUS_PREFIXES : StartsWith(tool_name, p)

RiskAssessment(dangerous, level, reason, impacts) ==
    [is_dangerous |-> dangerous, risk_level |-> level, reason |-> reason,
     impact_analysis |-> impacts]

\* The impact bullets by family; the first bullet carries an argument.
ImpactAnalysis(tool_name, arguments) ==
    IF tool_name = <<"d", "o", "c", "k", "e", "r", "_", "s", "t", "o", "p", "_", "c", "o", "n", "t", "a", "i", "n", "e", "r">>
    THEN << <<"Stops container", ArgGet(arguments, "container_id", "unknown")>>,
            <<"Service interruption for applications in this container.">>,
            <<"Potential data loss in ephemeral volumes.">> >>
    ELSE IF tool_name = <<"d", "o", "c", "k", "e", "r", "_", "r", "u", "n", "_", "c", "o", "n", "t", "a", "i", "n", "e", "r">>
    THEN << <<"Starts new container from", ArgGet(arguments, "image", "unknown")>>,
            <<"Consumes system resources (CPU/RAM).">>,
            <<"Binds network ports.">> >>
    ELSE IF In(<<"d", "e", "l", "e", "t", "e">>, tool_name)
    THEN << <<"PERMANENTLY removes the target resource.">>,
            <<"Cannot be undone.">>,
            <<"Service interruption.">> >>
    ELSE IF In(<<"e", "x", "e", "c">>, tool_name)
    THEN << <<"Executes arbitrary command:",
              IF "command" \in DOMAIN arguments THEN arguments["command"]
              ELSE IF "cmd" \in DOMAIN arguments THEN arguments["cmd"]
              ELSE "unknown command">>,
            <<"Full shell access risks.">>,
            <<"Potential system modification.">> >>
    ELSE IF In(<<"p", "r", "o", "m", "o", "t", "e">>, tool_name)
    THEN << <<"Copies", ArgGet(arguments, "resource_type", "resource"),
              ArgGet(arguments, "name", "unknown")>>,
            <<"Modifies remote cluster state.">>,
            <<"Potential for configuration drift if versions mismatch.">> >>
    ELSE <<>>

AnalyzeRisk(tool_name, arguments) ==
    IF ~IsDangerous(tool_name)
    THEN RiskAssessment(FALSE, "LOW", <<>>, <<>>)
    ELSE RiskAssessment(TRUE, "HIGH",
                        <<"Tool", tool_name,
                          "performs destructive or resource-intensive actions.">>,
                        ImpactAnalysis(tool_name, arguments))

NoRisk == [called |-> FALSE]

Analyze(tool_name, arguments) ==
    /\ risk' = [called |-> TRUE, tool_name |-> tool_name,
                arguments |-> arguments,
                assessment |-> AnalyzeRisk(tool_name, arguments)]
    /\ UNCHANGED <<Components, clientCall, execRun, retrieval, pulse>>

SafetyInit == risk = NoRisk

SafetyIdle == SafetyInit

SafetyNext ==
    \E tool_name \in RiskTools, arguments \in RiskArguments :
        Analyze(tool_name, arguments)

(***************************************************************************)
(* Remote exec tool (k8s_tools/remote_k8s_exec_tools.RemoteK8sExecTool)    *)
(*                                                                         *)
(* The command argument is whatever the caller passes: a list of strings,  *)
(* a string (indexed by character) or None.                                *)
(***************************************************************************)

SAFE_COMMANDS ==
    {"ls", "cat", "ps", "env", "printenv", "top", "date", "whoami", "ip",
     "netstat", "df", "du", "tail", "head", "grep", "echo"}

ListCommand(items) == [type |-> "list", items |-> items]
StrCommand(chars) == [type |-> "str", items |-> chars]
NoneCommand == [type |-> "None", items |-> <<>>]

ExecCommands ==
    { ListCommand(<<>>),
      ListCommand(<<"ls">>),
      ListCommand(<<"ls", "-la">>),
      ListCommand(<<"cat", "/etc/passwd">>),
      ListCommand(<<"env">>),
      ListCommand(<<"ps", "aux">>),
      ListCommand(<<"echo", "hi">>),
      ListCommand(<<"rm", "-rf", "/">>),
      ListCommand(<<"sh", "-c", "ls">>),
      ListCommand(<<"LS">>),
      ListCommand(<<" ls">>),
      ListCommand(<<"kubectl", "delete", "pod">>),
      StrCommand(<<"l", "s">>),
      StrCommand(<<"r", "m", " ", "/">>),
      StrCommand(<<>>),
      NoneCommand }

ContainerNames == {"None", "app"}

\* What subprocess.run does: a return code, or an exception.
ProcessOutcomes == {"exit 0", "exit 1", "TimeoutExpired", "FileNotFoundError"}

\* not command
NotCommand(command) == command.type = "None" \/ Len(command.items) = 0

\* The safety check: the error it returns, or "None" when the command passes.
SafetyCheckMutant(command) ==
    IF NotCommand(command)
    THEN "Command list cannot be empty."
    ELSE "None"

SafetyCheck(command) ==
    IF NotCommand(command)
    THEN "Command list cannot be empty."
    ELSE IF command.items[1] \notin SAFE_COMMANDS
    THEN "Command is NOT in the safe allow-list."
    ELSE "None"

\* k_args, without the path of the kubeconfig file
KubectlArgs(pod_name, namespace, container_name, command) ==
    <<"kubectl", "exec", pod_name, "-n", namespace, "--kubeconfig">>
        \o (IF container_name # "None" THEN <<"-c", container_name>> ELSE <<>>)
        \o <<"--">> \o command.items

\* The result of run after subprocess.run; a string command is passed to
\* kubectl character by character.
ExecResult(command, outcome) ==
    IF outcome = "TimeoutExpired"
    THEN [success |-> FALSE, error |-> "Command timed out."]
    ELSE IF outcome = "FileNotFoundError"
    THEN [success |-> FALSE, error |-> "No such file or directory: kubectl"]
    ELSE IF outcome = "exit 1"
    THEN [success |-> FALSE, error |-> "Exec failed (Exit 1)"]
    ELSE [success |-> TRUE, error |-> "None"]

ExecState(pc, command, container_name, files, created, started, k_args,
          result) ==
    [pc |-> pc, command |-> command, container_name |-> container_name,
     tmp_files |-> files, created |-> created, started |-> started,
     k_args |-> k_args, result |-> result]

NoResultYet == [success |-> FALSE, error |-> "None"]

ExecIdleState ==
    ExecState("idle", NoneCommand, "None", 0, 0, 0, <<>>, NoResultYet)

\* run, up to the safety check
ExecRun(command, container_name) ==
    /\ execRun.pc \in {"idle", "returned"}
    /\ LET error == SafetyCheck(command) IN
       execRun' = IF error # "None"
               THEN ExecState("returned", command, container_name,
                              execRun.tmp_files, 0, 0, <<>>,
                              [success |-> FALSE, error |-> error])
               ELSE ExecState("kubeconfig", command, container_name,
                              execRun.tmp_files, 0, 0, <<>>, NoResultYet)
    /\ UNCHANGED <<Components, clientCall, risk, retrieval, pulse>>

\* Number of kubeconfig files that runs leave behind.
MaxLeft == 2

\* What tmp_kc.write does (line 92): it writes, or raises.
WriteOutcomes == {"written", "OSError"}

\* Lines 91-93: tempfile.NamedTemporaryFile(delete=False) creates the file,
\* and the kubeconfig is written to it.  A write that raises leaves the
\* with block before the try of line 95: the handler of line 138 returns.
ExecWriteKubeconfig(outcome) ==
    /\ execRun.pc = "kubeconfig"
    /\ outcome = "written" \/ execRun.tmp_files < MaxLeft
    /\ execRun' = IF outcome = "written"
                  THEN [execRun EXCEPT !.pc = "kubectl",
                                       !.tmp_files = @ + 1,
                                       !.created = @ + 1]
                  ELSE [execRun EXCEPT !.pc = "returned",
                                       !.tmp_files = @ + 1,
                                       !.created = @ + 1,
                                       !.result = [success |-> FALSE,
                                                   error |-> "No space left on device"]]
    /\ UNCHANGED <<Components, clientCall, risk, retrieval, pulse>>

\* subprocess.run(k_args, timeout=15)
ExecSubprocess(outcome) ==
    /\ execRun.pc = "kubectl"
    /\ execRun' = [execRun EXCEPT !.pc = "cleanup",
                            !.started = @ + 1,
                            !.k_args = KubectlArgs("pod", "default",
                                                   execRun.container_name,
                                                   execRun.command),
                            !.result = ExecResult(execRun.command, outcome)]
    /\ UNCHANGED <<Components, clientCall, risk, retrieval, pulse>>

\* finally: os.remove(tmp_kc_path), then the return
ExecCleanup ==
    /\ execRun.pc = "cleanup"
    /\ execRun' = [execRun EXCEPT !.pc = "returned", !.tmp_files = @ - 1]
    /\ UNCHANGED <<Components, clientCall, risk, retrieval, pulse>>

ExecInit == execRun = ExecIdleState

ExecIdle == ExecInit

ExecNext ==
    \/ \E command \in ExecCommands, container_name \in ContainerNames :
           ExecRun(command, container_name)
    \/ \E outcome \in WriteOutcomes : ExecWriteKubeconfig(outcome)
    \/ \E outcome \in ProcessOutcomes : ExecSubprocess(outcome)
    \/ ExecCleanup

(***************************************************************************)
(* Tool retrieval (rag/tool_retriever.ToolRetriever.retrieve)              *)
(*                                                                         *)
(* A descriptor is identified by its tool name.  The scores of a search    *)
(* are whatever the embeddings give: every ranking is possible.            *)
(***************************************************************************)

\* self.tools, in registry order
RetrieverTools ==
    <<"docker_list_containers", "local_k8s_list_pods", "remote_k8s_list_pods">>

\* A tool that an older version registered and the index files still hold.
StaleTool == "docker_legacy_ps"

RetrieverToolNames == {RetrieverTools[i] : i \in 1..Len(RetrieverTools)}

RetrieveQueries == {"list pods", "show containers"}

TopKs == {1, 2}

Min(a, b) == IF a < b THEN a ELSE b

\* lst[:n]
Slice(lst, n) == SubSeq(lst, 1, Min(n, Len(lst)))

\* [x for x in lst if x in keep]
RECURSIVE Filter(_, _)
Filter(lst, keep) ==
    IF lst = <<>> THEN <<>>
    ELSE (IF lst[1] \in keep THEN <<lst[1]>> ELSE <<>>)
             \o Filter(Tail(lst), keep)

\* _sync_tools_to_faiss: the tools that are not indexed are added, each
\* when its embedding arrives (embedded: the tools whose embedding arrived).
SyncedIndex(indexed, embedded) ==
    indexed \cup ((RetrieverToolNames \ indexed) \cap embedded)

\* _retrieve_faiss: search returns the min(top_k, ntotal) best names of the
\* index; the names of self.tools are mapped back to descriptors.
RetrieveFaiss(ranking, top_k) ==
    Filter(Slice(ranking, top_k), RetrieverToolNames)

\* _retrieve_json: the tools sorted by score, cut at top_k.
RetrieveJson(ranking, top_k) == Slice(ranking, top_k)

\* retrieve, after the sync: query_emb_ok is whether the embedding of the
\* query is available (from the cache or from the service).
Retrieve(faiss_index, indexed, query_emb_ok, ranking, top_k) ==
    IF ~query_emb_ok
    THEN RetrieverTools
    ELSE IF faiss_index /\ Cardinality(indexed) > 0
    THEN RetrieveFaiss(ranking, top_k)
    ELSE RetrieveJson(ranking, top_k)

RetrieverState(faiss_index, indexed, cache) ==
    [faiss_index |-> faiss_index, indexed |-> indexed, query_cache |-> cache,
     called |-> FALSE, query |-> "None", top_k |-> 0, query_emb_ok |-> FALSE,
     result |-> <<>>]

RetrieveCall(query, top_k, embedded, embOk) ==
    LET indexed == IF retrieval.faiss_index
                   THEN SyncedIndex(retrieval.indexed, embedded)
                   ELSE retrieval.indexed
        query_emb_ok == query \in retrieval.query_cache \/ embOk
        ranked == IF retrieval.faiss_index /\ Cardinality(indexed) > 0
                  THEN indexed ELSE RetrieverToolNames
    IN
    /\ \E ranking \in Orders(ranked) :
           retrieval' =
               [faiss_index |-> retrieval.faiss_index,
                indexed |-> indexed,
                query_cache |-> IF query_emb_ok
                                THEN retrieval.query_cache \cup {query}
                                ELSE retrieval.query_cache,
                called |-> TRUE, query |-> query, top_k |-> top_k,
                query_emb_ok |-> query_emb_ok,
                result |-> Retrieve(retrieval.faiss_index, indexed,
                                    query_emb_ok, ranking, top_k)]
    /\ UNCHANGED <<Components, clientCall, risk, execRun, pulse>>

\* The retriever of a process: with the index files of an earlier run, or
\* without the faiss module.
RetrieverInit ==
    \E faiss_index \in BOOLEAN,
       indexed \in {{}, {StaleTool}, {RetrieverTools[1], StaleTool}} :
        /\ (~faiss_index => indexed = {})
        /\ retrieval = RetrieverState(faiss_index, indexed, {})

RetrieverIdle == retrieval = RetrieverState(TRUE, {}, {})

RetrieverNext ==
    \E query \in RetrieveQueries, top_k \in TopKs,
       embedded \in SUBSET RetrieverToolNames, embOk \in BOOLEAN :
        RetrieveCall(query, top_k, embedded, embOk)

(***************************************************************************)
(* Pulse monitor (devops_agent/pulse, imported by the discovery tools)     *)
(*                                                                         *)
(* One worker per backend probes it at each tick and publishes a snapshot: *)
(* the status, and the time of the check.                                  *)
(***************************************************************************)

MaxProbes == 4

PulseBackends == {MCP_DOCKER, MCP_K8S_LOCAL, MCP_K8S_REMOTE}

\* The status after a probe, from the number of probes that failed in a row.
StatusAfterMutant(failures) ==
    IF failures = 0 THEN "healthy" ELSE "degraded"

StatusAfter(failures) ==
    IF failures = 0 THEN "healthy"
    ELSE IF failures = 1 THEN "degraded"
    ELSE "disconnected"

Snapshot(status, failures, ts) ==
    [status |-> status, failures |-> failures, last_check_ts |-> ts]

NoProbe == [backend |-> "None", ok |-> FALSE]

\* One tick of the worker of a backend: the probe, and the new snapshot.
\* Two failures in a row are all that the status tells apart.
Probe(backend, ok) ==
    /\ pulse.clock < MaxProbes
    /\ LET failures == IF ok THEN 0
                       ELSE Min(pulse.snapshots[backend].failures + 1, 2)
       IN pulse' = [snapshots |->
                        [pulse.snapshots EXCEPT
                             ![backend] = Snapshot(StatusAfter(failures),
                                                   failures,
                                                   pulse.clock + 1)],
                    clock |-> pulse.clock + 1,
                    probe |-> [backend |-> backend, ok |-> ok]]
    /\ UNCHANGED <<Components, clientCall, risk, execRun, retrieval>>

\* The monitor of a new process: every backend healthy, never checked.
PulseInit ==
    pulse = [snapshots |-> [b \in PulseBackends |-> Snapshot("healthy", 0, 0)],
             clock |-> 0,
             probe |-> NoProbe]

PulseIdle == PulseInit

PulseNext == \E backend \in PulseBackends, ok \in BOOLEAN : Probe(backend, ok)

(***************************************************************************)
(* The parser on the shapes of LLM output (agent_module:                   *)
(* _validate_and_parse, parse_dspy_tool_calls)                             *)
(***************************************************************************)

\* The tool names and the arguments that the calls of an output carry.
OutputNames ==
    {"local_k8s_list_pods", "local_k8s_describe_pod", "remote_k8s_list_pods",
     "docker_prune_all", "tool_A"}

NameKeys == {"name", "tool_name", "tool"}

Arguments(toks, val) == [toks |-> toks, val |-> val]

OutputArguments ==
    { Arguments(<<LC, RC>>, EmptyDict),
      Arguments(<<LC, S("pod_name"), COLON, S("web"), RC>>,
                JDict(<<"pod_name">>, <<JStr("web")>>)),
      Arguments(<<LC, S("labels"), COLON, LB, S("a"), RB, RC>>,
                JDict(<<"labels">>, <<JList(<<JStr("a")>>)>>)) }

NodesObject == CallObject("name", "local_k8s_list_nodes", <<LC, RC>>)

NodesCall == ToolCall(JStr("local_k8s_list_nodes"), EmptyDict)

\* An output of a shape: its text and the calls it denotes.
Shaped(shape, text, denotes) ==
    [shape |-> shape, text |-> text, denotes |-> denotes]

\* The outputs that carry the call of a tool with given arguments.
OutputsOf(key, name, args) ==
    LET obj == CallObject(key, name, args.toks)
        call == ToolCall(JStr(name), args.val)
    IN  { Shaped("array", <<LB>> \o obj \o <<RB>>, <<call>>),
          Shaped("array of two",
                 <<NL, LB>> \o obj \o <<COMMA>> \o NodesObject \o <<RB, NL>>,
                 <<call, NodesCall>>),
          Shaped("fenced array",
                 <<FENCE, W("json"), NL, LB>> \o obj \o <<RB, NL, FENCE>>,
                 <<call>>),
          Shaped("prose with array",
                 <<W("Sure"), NL, LB>> \o obj \o <<RB, NL, W("Done")>>,
                 <<call>>),
          Shaped("object", obj, <<call>>),
          Shaped("prose with object", <<W("Use")>> \o obj, <<call>>),
          Shaped("prose with object before array",
                 <<W("Use")>> \o obj \o <<W("not"), LB>> \o NodesObject
                     \o <<RB>>,
                 <<call>>),
          Shaped("name and args", <<LB, S(name), COMMA>> \o args.toks \o <<RB>>,
                 <<call>>),
          Shaped("name", <<LB, S(name), RB>>,
                 <<ToolCall(JStr(name), EmptyDict)>>) }

ShapedOutputs ==
    UNION { OutputsOf(key, name, args) :
                key \in NameKeys, name \in OutputNames,
                args \in OutputArguments }
        \cup { Shaped("empty", <<>>, <<>>),
               Shaped("garbage", <<W("Sorry")>>, <<>>),
               Shaped("garbage", <<W("Sorry"), COMMA, W("no"), W("idea")>>,
                      <<>>) }

NoParseCall ==
    [called |-> FALSE, output |-> Shaped("empty", <<>>, <<>>),
     validated |-> NotParsed, calls |-> <<>>]

\* _validate_and_parse(output) and parse_dspy_tool_calls(output) of a text.
ParseOutput(output) ==
    /\ parseCall' = [called |-> TRUE, output |-> output,
                     validated |-> ValidateAndParse(TextOutput(output.text)),
                     calls |-> ParseRaw(TextOutput(output.text))]
    /\ UNCHANGED <<cliVars, cacheVars, faissVars, agentVars, routerVars,
                   syncVars, procVars, smartVars, serviceVars, storageVars>>

ParserInit == parseCall = NoParseCall

ParserIdle == ParserInit

ParserNext == \E output \in ShapedOutputs : ParseOutput(output)

(***************************************************************************)
(* The save of the index, statement by statement                           *)
(* (rag/faiss_index.FaissToolIndex._save, _load_or_create)                 *)
(*                                                                         *)
(* The process can stop between any two statements of _save; the next      *)
(* process constructs its index from the files it finds.                   *)
(***************************************************************************)

\* Number of saves that are explored.
MaxSaves == 3

\* faiss_metadata.json or faiss_metadata.tmp: absent, opened for writing
\* (whole = FALSE) or holding the JSON text of a metadata.
NoMetadataFile == [exists |-> FALSE, whole |-> FALSE, metadata |-> EmptyMetadata]

MetadataFile(whole, m) == [exists |-> TRUE, whole |-> whole, metadata |-> m]

\* faiss_index.bin or faiss_index.tmp: absent, or an index of ntotal vectors.
NoIndexFile == [exists |-> FALSE, ntotal |-> 0]

IndexFile(n) == [exists |-> TRUE, ntotal |-> n]

\* The files of data_dir.
NoSavedFiles ==
    [metadata_path |-> NoMetadataFile, temp_meta |-> NoMetadataFile,
     index_path |-> NoIndexFile, temp_idx |-> NoIndexFile]

\* Lines 126-128: open(temp_meta, "w") creates or truncates the file.
OpenTempMeta(files) ==
    [files EXCEPT !.temp_meta = MetadataFile(FALSE, EmptyMetadata)]

\* Line 128: json.dump(self.metadata, f), and the file is closed.
DumpMetadata(files, m) == [files EXCEPT !.temp_meta = MetadataFile(TRUE, m)]

\* Line 129: temp_meta.replace(self.metadata_path).
ReplaceMetadata(files) ==
    [files EXCEPT !.metadata_path = files.temp_meta,
                  !.temp_meta = NoMetadataFile]

\* Lines 136-137: faiss.write_index(index_to_save, str(temp_idx)).
WriteIndex(files, i) == [files EXCEPT !.temp_idx = IndexFile(i.ntotal)]

\* Line 138: temp_idx.replace(self.index_path).
ReplaceIndex(files) ==
    [files EXCEPT !.index_path = files.temp_idx, !.temp_idx = NoIndexFile]

\* _load_or_create (lines 72-87) with _load_index (lines 105-112), on the
\* files found: json.load raises on a file that is not whole.
LoadFiles(files) ==
    IF /\ files.index_path.exists
       /\ files.metadata_path.exists
       /\ files.metadata_path.whole
    THEN [index |-> FlatIndex(files.index_path.ntotal),
          metadata |-> files.metadata_path.metadata]
    ELSE [index |-> FlatIndex(0), metadata |-> EmptyMetadata]

SaveState(pc, i, m, files, saves) ==
    [pc |-> pc, index |-> i, metadata |-> m, files |-> files, saves |-> saves]

\* The in-memory index of the process; what add and clear compute on it
\* is taken before their call of _save.
InMemory == FaissState(saveRun.index, saveRun.metadata, NoFaissFiles)

\* add (lines 140-164) of a tool, up to its call of _save.  The add of
\* the only indexed tool goes through clear, which runs a save of its own:
\* SaveClear, then this action.
SaveAdd(tool_name) ==
    /\ saveRun.pc = "ready"
    /\ saveRun.saves < MaxSaves
    /\ DOMAIN saveRun.metadata.tools # {tool_name}
    /\ LET st == Add(InMemory, tool_name, TRUE, 0)
       IN  saveRun' = SaveState("open", st.index, st.metadata, saveRun.files,
                                saveRun.saves + 1)
    /\ UNCHANGED <<NotStorage, fileWrite, queryCache, gather>>

\* clear (lines 249-252), up to its call of _save.
SaveClear ==
    /\ saveRun.pc = "ready"
    /\ saveRun.saves < MaxSaves
    /\ LET st == CreateEmptyIndex(InMemory)
       IN  saveRun' = SaveState("open", st.index, st.metadata, saveRun.files,
                                saveRun.saves + 1)
    /\ UNCHANGED <<NotStorage, fileWrite, queryCache, gather>>

SaveOpenTempMeta ==
    /\ saveRun.pc = "open"
    /\ saveRun' = [saveRun EXCEPT !.pc = "dump",
                                  !.files = OpenTempMeta(@)]
    /\ UNCHANGED <<NotStorage, fileWrite, queryCache, gather>>

SaveDumpMetadata ==
    /\ saveRun.pc = "dump"
    /\ saveRun' = [saveRun EXCEPT !.pc = "replace metadata",
                                  !.files = DumpMetadata(@, saveRun.metadata)]
    /\ UNCHANGED <<NotStorage, fileWrite, queryCache, gather>>

SaveReplaceMetadata ==
    /\ saveRun.pc = "replace metadata"
    /\ saveRun' = [saveRun EXCEPT !.pc = "write index",
                                  !.files = ReplaceMetadata(@)]
    /\ UNCHANGED <<NotStorage, fileWrite, queryCache, gather>>

SaveWriteIndex ==
    /\ saveRun.pc = "write index"
    /\ saveRun' = [saveRun EXCEPT !.pc = "replace index",
                                  !.files = WriteIndex(@, saveRun.index)]
    /\ UNCHANGED <<NotStorage, fileWrite, queryCache, gather>>

\* The last statement of _save; add and clear return.
SaveReplaceIndex ==
    /\ saveRun.pc = "replace index"
    /\ saveRun' = [saveRun EXCEPT !.pc = "ready",
                                  !.files = ReplaceIndex(@)]
    /\ UNCHANGED <<NotStorage, fileWrite, queryCache, gather>>

\* The process stops, wherever it is; the next one loads the files.
SaveStopAndStart ==
    /\ LET loaded == LoadFiles(saveRun.files)
       IN  /\ SaveState("ready", loaded.index, loaded.metadata,
                        saveRun.files, saveRun.saves) # saveRun
           /\ saveRun' = SaveState("ready", loaded.index, loaded.metadata,
                                   saveRun.files, saveRun.saves)
    /\ UNCHANGED <<NotStorage, fileWrite, queryCache, gather>>

\* A first start: no file in data_dir.
SaveInit ==
    saveRun = SaveState("ready", FlatIndex(0), EmptyMetadata, NoSavedFiles, 0)

SaveIdle == SaveInit

SaveNext ==
    \/ \E tool_name \in FaissToolNames : SaveAdd(tool_name)
    \/ SaveClear
    \/ SaveOpenTempMeta
    \/ SaveDumpMetadata
    \/ SaveReplaceMetadata
    \/ SaveWriteIndex
    \/ SaveReplaceIndex
    \/ SaveStopAndStart

(***************************************************************************)
(* The JSON caches on disk (semantic_cache.SemanticCache._save,            *)
(* router.IntentRouter.load_intents, tool_indexer.save_embeddings)         *)
(*                                                                         *)
(* A cache is the number of its entries.  The process can stop between     *)
(* the open and the end of json.dump; the next process loads the files.    *)
(***************************************************************************)

\* Number of entries a cache grows to.
MaxWrites == 2

\* cache_path of the semantic cache, cache_path of the router and
\* TOOL_EMBEDDINGS_PATH.
JsonPaths ==
    {"semantic_cache.json", "embeddings_cache.json", "tool_embeddings.json"}

NoJsonFile == [exists |-> FALSE, whole |-> FALSE, entries |-> 0]

\* open(path, "w"): the file is created or truncated; nothing is written yet.
OpenForWriting == [exists |-> TRUE, whole |-> FALSE, entries |-> 0]

\* json.dump(entries, f) up to its end, and the file is closed.
Dumped(n) == [exists |-> TRUE, whole |-> TRUE, entries |-> n]

\* _load (semantic_cache 22-28), load_intents (router 89-96) and
\* load_embeddings (tool_indexer 108-117): json.load of the file, and the
\* empty cache when there is no file or json.load raises.
LoadJson(file) == IF file.exists /\ file.whole THEN file.entries ELSE 0

WriteState(files, memory, writing) ==
    [files |-> files, memory |-> memory, writing |-> writing]

\* An entry is added to a cache and the save begins: open(path, "w").
WriteOpen(path) ==
    /\ fileWrite.writing = "None"
    /\ fileWrite.memory[path] < MaxWrites
    /\ fileWrite' =
         WriteState([fileWrite.files EXCEPT ![path] = OpenForWriting],
                    [fileWrite.memory EXCEPT ![path] = @ + 1],
                    path)
    /\ UNCHANGED <<NotStorage, saveRun, queryCache, gather>>

\* json.dump and the end of the with block.
WriteDump ==
    /\ fileWrite.writing # "None"
    /\ LET path == fileWrite.writing
       IN  fileWrite' =
             WriteState([fileWrite.files EXCEPT
                            ![path] = Dumped(fileWrite.memory[path])],
                        fileWrite.memory, "None")
    /\ UNCHANGED <<NotStorage, saveRun, queryCache, gather>>

\* The process stops, wherever it is; the next one loads the files.
WriteStopAndStart ==
    /\ LET loaded == [p \in JsonPaths |-> LoadJson(fileWrite.files[p])]
       IN  /\ WriteState(fileWrite.files, loaded, "None") # fileWrite
           /\ fileWrite' = WriteState(fileWrite.files, loaded, "None")
    /\ UNCHANGED <<NotStorage, saveRun, queryCache, gather>>

\* A first start: no cache file.
WriteInit ==
    fileWrite = WriteState([p \in JsonPaths |-> NoJsonFile],
                           [p \in JsonPaths |-> 0], "None")

WriteIdle == WriteInit

WriteNext ==
    \/ \E path \in JsonPaths : WriteOpen(path)
    \/ WriteDump
    \/ WriteStopAndStart

(***************************************************************************)
(* The cache of query embeddings (rag/tool_retriever:                      *)
(* _get_async_query_embedding on _ASYNC_QUERY_CACHE)                       *)
(*                                                                         *)
(* A call whose query is not cached is suspended at "await                 *)
(* async_get_embeddings".  The cache is the number of its keys, and which  *)
(* of the queries of the suspended calls are among them: a query is told   *)
(* from another only while a call that asks for it is suspended.           *)
(***************************************************************************)

\* Line 23: len(_ASYNC_QUERY_CACHE) > 256.
QueryCacheLimit == 256

\* Number of calls that are suspended at the same time.
MaxSuspended == 2

\* The queries of the suspended calls.
SuspendedQueries == 1..MaxSuspended

Range(seq) == { seq[i] : i \in 1..Len(seq) }

Without(seq, i) == SubSeq(seq, 1, i - 1) \o SubSeq(seq, i + 1, Len(seq))

QueryCache(len, asked) == [len |-> len, asked |-> asked]

\* Lines 21-25, once the embedding has arrived: the cache after the call.
CacheEmbedding(cache, query, emb) ==
    IF ~emb THEN cache
    ELSE IF cache.len > QueryCacheLimit THEN QueryCache(1, {query})
    ELSE IF query \in cache.asked THEN cache
    ELSE QueryCache(cache.len + 1, cache.asked \cup {query})

NoQuery == [cached |-> FALSE, emb |-> FALSE]

QueryState(cache, suspended, last) ==
    [cache |-> cache, suspended |-> suspended, last |-> last]

\* Lines 16-17: the query is cached, the call returns at once.
QueryHit ==
    /\ queryCache.cache.len > 0
    /\ queryCache' = [queryCache EXCEPT
                         !.last = [cached |-> TRUE, emb |-> TRUE]]
    /\ UNCHANGED <<NotStorage, saveRun, fileWrite, gather>>

\* Lines 16-20: the query is not cached, the call awaits its embedding.
\* It is the query of a suspended call, or another one.
QueryMiss(query) ==
    /\ query \notin queryCache.cache.asked
    /\ Len(queryCache.suspended) < MaxSuspended
    /\ queryCache' = [queryCache EXCEPT !.suspended = Append(@, query)]
    /\ UNCHANGED <<NotStorage, saveRun, fileWrite, gather>>

\* Lines 20-26: the embedding of the i-th suspended call arrives (emb), or
\* the embedding service returns nothing.
QueryResume(i, emb) ==
    /\ i \in 1..Len(queryCache.suspended)
    /\ LET query == queryCache.suspended[i]
           cache == CacheEmbedding(queryCache.cache, query, emb)
           suspended == Without(queryCache.suspended, i)
       IN  queryCache' =
             QueryState(QueryCache(cache.len,
                                   cache.asked \cap Range(suspended)),
                        suspended,
                        [cached |-> FALSE, emb |-> emb])
    /\ UNCHANGED <<NotStorage, saveRun, fileWrite, gather>>

\* Line 12: _ASYNC_QUERY_CACHE = {}.
QueryInit == queryCache = QueryState(QueryCache(0, {}), <<>>, NoQuery)

QueryIdle == QueryInit

QueryNext ==
    \/ QueryHit
    \/ \E query \in SuspendedQueries : QueryMiss(query)
    \/ \E i \in 1..MaxSuspended, emb \in BOOLEAN : QueryResume(i, emb)

(***************************************************************************)
(* Concurrent retrieve calls on one index (rag/tool_retriever:             *)
(* ToolRetriever._sync_tools_to_faiss, _add_tool_to_faiss)                 *)
(*                                                                         *)
(* The calls run on one event loop: a call is suspended at each await, and *)
(* the statements between two awaits run without interruption.             *)
(***************************************************************************)

\* Number of retrieve calls that run concurrently.
MaxRetrieves == 2

Retrieves == 1..MaxRetrieves

GatherState(st, pc, tasks, embedded) ==
    [st |-> st, pc |-> pc, tasks |-> tasks, embedded |-> embedded]

\* Lines 67-83 of call r: indexed_tools is read, and one task is made for
\* each tool of self.tools that is not indexed; without a task the sync
\* is over.
GatherSync(r) ==
    /\ gather.pc[r] = "idle"
    /\ LET indexed_tools == DOMAIN gather.st.metadata.tools
           tasks == FaissToolNames \ indexed_tools   \* of self.tools
       IN  gather' = [gather EXCEPT
                         !.pc[r] = IF tasks = {} THEN "synced" ELSE "gather",
                         !.tasks[r] = tasks]
    /\ UNCHANGED <<NotStorage, saveRun, fileWrite, queryCache>>

\* _add_tool_to_faiss (lines 84-89) of one task of call r, from the arrival
\* of its embedding: faiss_index.add when there is one.  The gather of
\* line 82 returns with the last task.
GatherAdd(r, name, emb) ==
    /\ gather.pc[r] = "gather"
    /\ name \in gather.tasks[r]
    /\ LET st == IF emb THEN Add(gather.st, name, TRUE, ToolDescLen(name))
                 ELSE gather.st
           tasks == gather.tasks[r] \ {name}
       IN  gather' = [gather EXCEPT
                         !.st = st,
                         !.tasks[r] = tasks,
                         !.pc[r] = IF tasks = {} THEN "synced" ELSE "gather",
                         !.embedded = @ /\ emb]
    /\ UNCHANGED <<NotStorage, saveRun, fileWrite, queryCache>>

\* The retriever is constructed on the index of the files found.
GatherLoaded(disk) ==
    gather = GatherState(LoadOrCreate(TRUE, disk),
                         [r \in Retrieves |-> "idle"],
                         [r \in Retrieves |-> {}], TRUE)

\* The files of a former run: none, or an index of one tool.
GatherInit == \E disk \in SavedIndexes : GatherLoaded(disk)

GatherIdle == GatherLoaded(NoFaissFiles)

GatherNext ==
    \/ \E r \in Retrieves : GatherSync(r)
    \/ \E r \in Retrieves, name \in FaissToolNames, emb \in BOOLEAN :
           GatherAdd(r, name, emb)

(***************************************************************************)
(* The persistent files and the concurrent tasks, idle                     *)
(***************************************************************************)

StorageIdle == SaveIdle /\ WriteIdle /\ QueryIdle /\ GatherIdle

(***************************************************************************)
(* The backend services, idle                                              *)
(***************************************************************************)

ServicesIdle ==
    /\ ClientIdle /\ SafetyIdle /\ ExecIdle /\ RetrieverIdle /\ PulseIdle
    /\ ParserIdle /\ StorageIdle

(***************************************************************************)
(* Specifications: one per component, the other components idle            *)
(***************************************************************************)

CliIdle == CliInit

InitCli == CliInit /\ CacheIdle /\ FaissIdle /\ AgentIdle /\ RouterIdle
    /\ SyncIdle /\ ProcsIdle /\ SmartIdle /\ ServicesIdle

SpecCli == InitCli /\ [][CliNext]_vars

InitCache == CacheInit /\ CliIdle /\ FaissIdle /\ AgentIdle /\ RouterIdle
    /\ SyncIdle /\ ProcsIdle /\ SmartIdle /\ ServicesIdle

SpecCache == InitCache /\ [][CacheNext]_vars

InitCacheFull ==
    CacheFullInit /\ CliIdle /\ FaissIdle /\ AgentIdle /\ RouterIdle
    /\ SyncIdle /\ ProcsIdle /\ SmartIdle /\ ServicesIdle

SpecCacheFull == InitCacheFull /\ [][CacheFullNext]_vars

SpecConcurrentAdds == InitCache /\ [][ConcurrentAddsNext]_vars

InitFaiss == FaissInit /\ CliIdle /\ CacheIdle /\ AgentIdle /\ RouterIdle
    /\ SyncIdle /\ ProcsIdle /\ SmartIdle /\ ServicesIdle

SpecFaiss == InitFaiss /\ [][FaissNext]_vars

InitAgent == AgentInit /\ CliIdle /\ CacheIdle /\ FaissIdle /\ RouterIdle
    /\ SyncIdle /\ ProcsIdle /\ SmartIdle /\ ServicesIdle

SpecAgent == InitAgent /\ [][AgentNext]_vars

\* The two similarity tiers: a cache loaded from its file, and the router.
ThresholdCacheInit ==
    \E saved \in { <<Entry(2, Emb(2), <<"o", "k">>, <<PodsCall>>, "None", 1)>>,
                    <<Entry(3, Emb(3), <<"u", "p">>, <<PodsCall>>, "k8s_local", 1)>>,
                    <<Entry(3, Emb(3), <<"u", "p">>, <<PodsCall>>, "k8s_local", 1),
                      Entry(2, Emb(2), <<"o", "k">>, <<PodsCall>>, "k8s_remote", 2),
                      Entry(4, Emb(4), <<"o", "k">>, <<ListCall>>, "k8s_remote", 3)>> } :
        /\ entries = saved
        /\ cacheDisk = saved
        /\ pendingAdds = {}
        /\ addsStarted = 0
        /\ clock = Len(saved) + 1
        /\ lastAdded = NoAdd
        /\ lastLookup = NoLookup

InitThresholds ==
    ThresholdCacheInit /\ RouterInit /\ CliIdle /\ FaissIdle /\ AgentIdle
    /\ SyncIdle /\ ProcsIdle /\ SmartIdle /\ ServicesIdle

ThresholdNext ==
    \/ \E q \in CacheQueries, mcp \in {"None", "k8s_local"}, embOk \in BOOLEAN :
           Lookup(q, mcp, embOk)
    \/ RouterNext

SpecThresholds == InitThresholds /\ [][ThresholdNext]_vars

\* The startup sync, on the index of a first start.
InitSync ==
    SyncInit /\ FaissInit /\ ProcsIdle /\ CliIdle /\ CacheIdle /\ AgentIdle
    /\ RouterIdle /\ SmartIdle /\ ServicesIdle

SpecSync == InitSync /\ [][SyncNext]_vars

\* Two processes that have loaded the same index files.
InitProcs ==
    ProcsInit /\ SyncIdle /\ CliIdle /\ CacheIdle /\ AgentIdle /\ RouterIdle
    /\ SmartIdle /\ ServicesIdle

SpecProcs == InitProcs /\ [][ProcsNext]_vars

InitSmart ==
    SmartInit /\ CliIdle /\ CacheIdle /\ FaissIdle /\ AgentIdle /\ RouterIdle
    /\ SyncIdle /\ ProcsIdle /\ ServicesIdle

SpecSmart == InitSmart /\ [][SmartNext]_vars

(***************************************************************************)
(* Specifications of the backend services                                  *)
(***************************************************************************)

ComponentsIdle ==
    /\ CliIdle /\ CacheIdle /\ FaissIdle /\ AgentIdle /\ RouterIdle
    /\ SyncIdle /\ ProcsIdle /\ SmartIdle /\ ParserIdle /\ StorageIdle

InitClient ==
    ClientInit /\ ComponentsIdle /\ SafetyIdle /\ ExecIdle /\ RetrieverIdle
    /\ PulseIdle

SpecClient == InitClient /\ [][ClientNext]_vars

InitSafety ==
    SafetyInit /\ ComponentsIdle /\ ClientIdle /\ ExecIdle /\ RetrieverIdle
    /\ PulseIdle

SpecSafety == InitSafety /\ [][SafetyNext]_vars

InitExec ==
    ExecInit /\ ComponentsIdle /\ ClientIdle /\ SafetyIdle /\ RetrieverIdle
    /\ PulseIdle

SpecExec == InitExec /\ [][ExecNext]_vars

InitRetriever ==
    RetrieverInit /\ ComponentsIdle /\ ClientIdle /\ SafetyIdle /\ ExecIdle
    /\ PulseIdle

SpecRetriever == InitRetriever /\ [][RetrieverNext]_vars

InitPulse ==
    PulseInit /\ ComponentsIdle /\ ClientIdle /\ SafetyIdle /\ ExecIdle
    /\ RetrieverIdle

SpecPulse == InitPulse /\ [][PulseNext]_vars

\* The parser, applied to outputs of every shape.
InitParser ==
    /\ ParserInit
    /\ CliIdle /\ CacheIdle /\ FaissIdle /\ AgentIdle /\ RouterIdle
    /\ SyncIdle /\ ProcsIdle /\ SmartIdle
    /\ ClientIdle /\ SafetyIdle /\ ExecIdle /\ RetrieverIdle /\ PulseIdle
    /\ StorageIdle

SpecParser == InitParser /\ [][ParserNext]_vars

\* The router of every intents file, and the callers of route.
InitRouter ==
    /\ RouterWithCallersInit
    /\ CliIdle /\ CacheIdle /\ FaissIdle /\ AgentIdle /\ SyncIdle /\ ProcsIdle
    /\ SmartIdle /\ ServicesIdle

SpecRouter == InitRouter /\ [][RouterWithCallersNext]_vars

(***************************************************************************)
(* Specifications of the persistent files and the concurrent tasks         *)
(***************************************************************************)

\* Every component and every backend service, idle.
RestIdle ==
    /\ CliIdle /\ CacheIdle /\ FaissIdle /\ AgentIdle /\ RouterIdle
    /\ SyncIdle /\ ProcsIdle /\ SmartIdle /\ ParserIdle
    /\ ClientIdle /\ SafetyIdle /\ ExecIdle /\ RetrieverIdle /\ PulseIdle

InitSave == SaveInit /\ RestIdle /\ WriteIdle /\ QueryIdle /\ GatherIdle

SpecSave == InitSave /\ [][SaveNext]_vars

InitWrite == WriteInit /\ RestIdle /\ SaveIdle /\ QueryIdle /\ GatherIdle

SpecWrite == InitWrite /\ [][WriteNext]_vars

InitQuery == QueryInit /\ RestIdle /\ SaveIdle /\ WriteIdle /\ GatherIdle

SpecQuery == InitQuery /\ [][QueryNext]_vars

InitGather == GatherInit /\ RestIdle /\ SaveIdle /\ WriteIdle /\ QueryIdle

SpecGather == InitGather /\ [][GatherNext]_vars

(***************************************************************************)
(* Claims about the CLI command turn                                       *)
(***************************************************************************)

\* C1: in a command turn, a backend call for the tool named in the
\* confirmation_request is issued only after the user approved it in that
\* turn; on a decline, or when no approval is asked (no_confirm), no backend
\* call is issued for that tool.
C1_CallOnlyAfterApproval ==
    \A i \in 1..Len(backendCalls) :
        (confReq.present /\ backendCalls[i].name = confReq.tool)
            => (approved = "yes" /\ ~no_confirm)

\* The user approved the request and the tool's call was issued.
C1_Witness ==
    /\ confReq.present
    /\ approved = "yes"
    /\ \E i \in 1..Len(backendCalls) : backendCalls[i].name = confReq.tool

\* no_confirm was set for a confirmation payload: the turn ended, nothing
\* was called.
C1_WitnessNoConfirm ==
    /\ confReq.present /\ no_confirm /\ cliPc = "done" /\ backendCalls = <<>>

(***************************************************************************)
(* Claims about the semantic cache                                         *)
(***************************************************************************)

\* The output mentions a failure: it contains "error" or "failed", whatever
\* the case of its letters.
MentionsFailure(out) ==
    \E i \in 1..Len(out), w \in {ErrorText, FailedText} :
        /\ i + Len(w) - 1 <= Len(out)
        /\ \A j \in 1..Len(w) : LowerChar(out[i + j - 1]) = w[j]

CarriesConfirmation(calls) ==
    \E i \in 1..Len(calls) : "confirmation_request" \in DOMAIN calls[i]

\* C2: after any sequence of add calls, no entry inserted by add has an
\* output that contains "error" or "failed" (case-insensitively), and none
\* was inserted from a call whose tool_calls carry a confirmation request.
C2_NoFailureCached ==
    \A i \in 1..Len(entries) :
        /\ ~MentionsFailure(entries[i].output)
        /\ ~CarriesConfirmation(entries[i].tool_calls)

\* An add call with a failure output has returned, and so has one with a
\* confirmation request, while the cache holds entries of other calls.
C2_Witness ==
    /\ entries # <<>>
    /\ lastAdded # NoAdd
    /\ MentionsFailure(lastAdded.output) \/ CarriesConfirmation(lastAdded.tool_calls)

\* C8: after the result of a successful execution of query q in scope s
\* (one the cache did not serve) has been passed to add, with the embedding
\* service available, a second submission of q in scope s is a cache hit
\* whose output and tool_calls are those of that execution.
C8_HitReturnsOriginal ==
    ( /\ lastAdded # NoAdd
      /\ lastAdded.embOk
      /\ lastAdded.wasMiss
      /\ ~MentionsFailure(lastAdded.output)
      /\ ~CarriesConfirmation(lastAdded.tool_calls)
      /\ lastLookup.query = lastAdded.query
      /\ lastLookup.active_mcp = lastAdded.active_mcp
      /\ lastLookup.embOk )
    => ( /\ lastLookup.hit
         /\ lastLookup.output = lastAdded.output
         /\ lastLookup.tool_calls = lastAdded.tool_calls )

\* C10: the cache never holds more than 500 entries, and an insert into a
\* full cache evicts the oldest entry: the others keep their order and the
\* new entry is the last one.
C10_BoundedFifo ==
    /\ [](Len(entries) <= MAX_ENTRIES)
    /\ [][ (Len(entries) = MAX_ENTRIES /\ entries' # entries) =>
             /\ Len(entries') = MAX_ENTRIES
             /\ SubSeq(entries', 1, MAX_ENTRIES - 1) = Tail(entries)
             /\ \A i \in 1..Len(entries') :
                   entries'[i].timestamp > Head(entries).timestamp ]_vars

\* The oldest saved entry was evicted by an insert into the full cache.
C10_Witness ==
    /\ Len(entries) = MAX_ENTRIES
    /\ entries[1].query # 1001
    /\ entries[MAX_ENTRIES].query \in AddQueries

(***************************************************************************)
(* Claims about the FAISS tool index                                       *)
(***************************************************************************)

\* C3: after any sequence of add, remove and clear operations, the number
\* of vectors in the index (ntotal) equals the number of tools in the
\* metadata, and the position recorded for each tool name maps back to that
\* name in idx_to_tool; verify() reports no issue.
C3_IndexMatchesMetadata ==
    /\ index.present => index.ntotal = Cardinality(DOMAIN metadata.tools)
    /\ \A name \in DOMAIN metadata.tools :
          \E key \in DOMAIN metadata.idx_to_tool :
              /\ key = Str(metadata.tools[name].idx)
              /\ metadata.idx_to_tool[key] = name
    /\ Verify(Current) = {}

\* A tool was removed from an index of several tools: the rebuild emptied
\* the index and the metadata, while the files still hold the tools.
C3_Witness ==
    /\ index.present
    /\ index.ntotal = 0
    /\ metadata = EmptyMetadata
    /\ faissDisk.exists
    /\ faissDisk.ntotal >= 2

\* All the tools are indexed, at the positions 0 .. MaxTools - 1.
C3_WitnessFull ==
    /\ index.ntotal = MaxTools
    /\ DOMAIN metadata.tools = FaissToolNames

(***************************************************************************)
(* Claims about the LLM agent and the parser                               *)
(***************************************************************************)

\* The call names a tool of the given set of names.
NamesToolOf(call, names) == call.name.k = "str" /\ call.name.s \in names

\* C4: every tool name in a call list resolved by a tier, that is by
\* IntentRouter.route or by parse_dspy_tool_calls applied to LLM output, is
\* the name of a tool in the registry.
C4_ResolvedNamesRegistered ==
    /\ \A i \in 1..Len(parsed) : NamesToolOf(parsed[i], RegistryNames)
    /\ \A i \in 1..Len(lastRoute.result.calls) :
          lastRoute.result.calls[i].name \in RegistryNames

\* C5: every prediction that forward returns with the _validated_calls
\* marker holds a non-empty call list in which each name is a tool of the
\* supplied tools_schema and each parameter that the tool's schema lists as
\* required is a key of the call's arguments.
C5_ValidatedCallsWellFormed ==
    (agentPc = "returned" /\ prediction.marker) =>
        /\ prediction.validated_calls # <<>>
        /\ \A i \in 1..Len(prediction.validated_calls) :
              LET call == prediction.validated_calls[i]
              IN  /\ NamesToolOf(call, SchemaNames(tools_schema))
                  /\ \A j \in 1..Len(tools_schema) :
                        tools_schema[j].name = call.name.s =>
                            \A r \in 1..Len(tools_schema[j].parameters.required) :
                                /\ call.arguments.k = "dict"
                                /\ \E n \in 1..Len(call.arguments.keys) :
                                      call.arguments.keys[n] =
                                          tools_schema[j].parameters.required[r]

\* C6, as stated: in one forward call Stage B makes at most max_retries
\* attempts.
C6_AtMostMaxRetries == Len(smartQueries) <= max_retries

\* C6, amended: in one forward call Stage B makes at most max_retries + 1
\* attempts (3 by default): a first attempt and max_retries retries.
C6_AtMostMaxRetriesPlusOne == Len(smartQueries) <= max_retries + 1

\* With the default max_retries = 2, a forward call has ended after three
\* Stage B attempts.
C6_Witness ==
    /\ max_retries = 2
    /\ Len(smartQueries) = 3
    /\ agentPc \in {"returned", "raised"}

\* C7: forward always returns a prediction and never raises; when no
\* attempt produced valid output, the prediction it returns carries no
\* _validated_calls marker.
C7_AlwaysReturns ==
    /\ agentPc # "raised"
    /\ agentPc = "returned" =>
          /\ prediction.bound
          /\ attempt >= max_retries + 1 => ~prediction.marker

(***************************************************************************)
(* Claims about the similarity thresholds                                  *)
(***************************************************************************)

\* The entry is not filtered out by the scope of the lookup.
InScope(entry, mcp) == mcp = "None" \/ entry.active_mcp = mcp

\* Position i holds the best-scoring of the embeddings embs for emb, the
\* first one among equals, positions outside the set among being ignored.
IsBest(embs, among, i, emb) ==
    /\ i \in among
    /\ \A j \in among :
          /\ ~ScoreGT(CosineSimilarity(emb, embs[j]), CosineSimilarity(emb, embs[i]))
          /\ j < i => ScoreGT(CosineSimilarity(emb, embs[i]),
                              CosineSimilarity(emb, embs[j]))

\* C9, the cache: a lookup that obtained the embedding of its query returns
\* the best-scoring entry of its scope exactly when that entry's score is
\* at least 0.98, and a miss otherwise.
C9_CacheThreshold ==
    (lastLookup # NoLookup /\ lastLookup.embOk) =>
        LET embs == [i \in 1..Len(entries) |-> entries[i].embedding]
            among == { i \in 1..Len(entries) :
                          InScope(entries[i], lastLookup.active_mcp) }
            emb == Emb(lastLookup.query)
        IN  /\ lastLookup.hit <=>
                  \E i \in among :
                      /\ IsBest(embs, among, i, emb)
                      /\ 50 * CosineSimilarity(emb, embs[i]).num
                            >= 49 * CosineSimilarity(emb, embs[i]).den
            /\ lastLookup.hit =>
                  \E i \in among :
                      /\ IsBest(embs, among, i, emb)
                      /\ lastLookup.output = entries[i].output
                      /\ lastLookup.tool_calls = entries[i].tool_calls

\* C9, the router: a route call that reached the intent tier with the
\* embedding of its query returns the best-scoring intent exactly when that
\* intent's score is strictly greater than 0.82, and None otherwise.
C9_IntentThreshold ==
    ( /\ lastRoute.called
      /\ ~lastRoute.cached
      /\ lastRoute.embOk
      /\ lastRoute.result.tier \in {"intent", "fallback"} ) =>
        LET embs == [i \in 1..Len(semantic_intents) |->
                        semantic_intents[i].embedding]
            among == 1..Len(semantic_intents)
            emb == RouterEmb(StripQuery(lastRoute.query))
        IN  /\ ~lastRoute.result.none <=>
                  \E i \in among :
                      /\ IsBest(embs, among, i, emb)
                      /\ 50 * CosineSimilarity(emb, embs[i]).num
                            > 41 * CosineSimilarity(emb, embs[i]).den
            /\ ~lastRoute.result.none =>
                  \E i \in among :
                      /\ IsBest(embs, among, i, emb)
                      /\ lastRoute.result.calls =
                            <<Call(semantic_intents[i].tool,
                                   semantic_intents[i].args)>>

C9_WitnessIntentHit ==
    /\ lastRoute.called /\ lastRoute.result.tier = "intent"
    /\ lastRoute.result.calls = <<Call("local_k8s_describe_pod", [pod_name |-> "web"])>>


\* C11: a lookup with a backend scope returns only what an entry stored under
\* that same scope holds, also when an entry of another scope or of no scope
\* is at least as similar to the query.
C11_ScopedLookupStaysInScope ==
    (lastLookup.hit /\ lastLookup.active_mcp # "None") =>
        \E i \in 1..Len(entries) :
            /\ entries[i].active_mcp = lastLookup.active_mcp
            /\ entries[i].output = lastLookup.output
            /\ entries[i].tool_calls = lastLookup.tool_calls
            /\ ScoreGE(CosineSimilarity(Emb(lastLookup.query),
                                        entries[i].embedding), CacheThreshold)

\* A scoped hit while an entry of another scope holds the very query.
C11_Witness ==
    /\ lastLookup.hit
    /\ lastLookup.active_mcp = "k8s_local"
    /\ \E i \in 1..Len(entries) :
          /\ entries[i].active_mcp # "k8s_local"
          /\ entries[i].query = lastLookup.query


(***************************************************************************)
(* Claims about the startup sync and the index files                       *)
(***************************************************************************)

\* Two runs of the same sync, one after the other, on the same registry.
SameSyncTwice(i) ==
    /\ syncs[i + 1].kind = syncs[i].kind
    /\ syncs[i + 1].registry = syncs[i].registry

\* The second run embedded nothing, made no add call on the index and left
\* the index files as they were.
AddsNothing(i) ==
    /\ syncs[i + 1].new_embeddings = 0
    /\ syncs[i + 1].faiss_synced = 0
    /\ syncs[i + 1].indexed = syncs[i].indexed
    /\ syncs[i + 1].filesKept

C13_IndexEqualsRegistry ==
    \A i \in 1..Len(syncs) :
        (faiss /\ syncs[i].embedded /\ syncs[i].dimOk) =>
            syncs[i].indexed = syncs[i].registry

\* A tool that the index files did not hold when the processes loaded them.
NewTool(n) == \A d \in SavedIndexes : n \notin DOMAIN d.metadata.tools

\* C14: when each of two processes that loaded the same index files has
\* added one new tool, and the two tools differ, the index files hold both.
C14_BothAddsPersisted ==
    (/\ Len(procAdds[1]) = 1
     /\ Len(procAdds[2]) = 1
     /\ NewTool(procAdds[1][1])
     /\ NewTool(procAdds[2][1])
     /\ procAdds[1][1] # procAdds[2][1]) =>
        {procAdds[1][1], procAdds[2][1]} \subseteq DOMAIN faissDisk.metadata.tools


(***************************************************************************)
(* Claims about the smart MCP router                                       *)
(***************************************************************************)

\* The query of the last route call, in lower case.
RoutedQuery == Lower(lastSmart.query)

\* The query contains one of the common Kubernetes terms.
AboutK8s == MatchesAny(RoutedQuery, k8s_common)

\* The call had a sticky context: a session with a last backend, and a
\* follow-up indicator among the words of the query.
IsSticky ==
    /\ lastSmart.session_id # "None"
    /\ lastSmart.last # "None"
    /\ \E w \in context_indicators : InSplit(w, RoutedQuery)

\* C15: a query with a common Kubernetes term and no keyword of the local or
\* of the remote cluster is routed to both clusters, unless the pulse
\* reports the remote one as disconnected.
C15_AmbiguousK8sGetsBoth ==
    (/\ lastSmart.called
     /\ AboutK8s
     /\ ~MatchesAny(RoutedQuery, K8sLocalKeywords)
     /\ ~MatchesAny(RoutedQuery, K8sRemoteKeywords)
     /\ lastSmart.status # "disconnected") =>
        {MCP_K8S_LOCAL, MCP_K8S_REMOTE} \subseteq lastSmart.mcps

\* C16: a query with "remote" and without "local" is routed to k8s_remote and
\* not to k8s_local, and a query with "local" and without "remote" to
\* k8s_local and not to k8s_remote, whatever the session's last backend is.
C16_ExplicitClusterOnly ==
    lastSmart.called =>
        /\ (In(RemoteText, RoutedQuery) /\ ~In(LocalText, RoutedQuery)) =>
               /\ MCP_K8S_REMOTE \in lastSmart.mcps
               /\ MCP_K8S_LOCAL \notin lastSmart.mcps
        /\ (In(LocalText, RoutedQuery) /\ ~In(RemoteText, RoutedQuery)) =>
               /\ MCP_K8S_LOCAL \in lastSmart.mcps
               /\ MCP_K8S_REMOTE \notin lastSmart.mcps

\* C17: when the pulse reports k8s_remote as disconnected and the query does
\* not contain "remote", k8s_remote is not in the result; when the query
\* contains "remote", k8s_remote is in the result whatever the pulse reports.
C17_DisconnectedRemoteDropped ==
    lastSmart.called =>
        /\ (lastSmart.status = "disconnected" /\ ~In(RemoteText, RoutedQuery))
               => MCP_K8S_REMOTE \notin lastSmart.mcps
        /\ In(RemoteText, RoutedQuery) => MCP_K8S_REMOTE \in lastSmart.mcps

\* An ambiguous Kubernetes query lost the disconnected remote cluster.
C17_Witness ==
    /\ lastSmart.called
    /\ lastSmart.status = "disconnected"
    /\ AboutK8s
    /\ ~MatchesAny(RoutedQuery, K8sRemoteKeywords)
    /\ lastSmart.last = "None"
    /\ lastSmart.mcps = {MCP_K8S_LOCAL}

\* A query with "remote" kept the disconnected remote cluster.
C17_WitnessExplicit ==
    /\ lastSmart.called
    /\ lastSmart.status = "disconnected"
    /\ In(RemoteText, RoutedQuery)
    /\ MCP_K8S_REMOTE \in lastSmart.mcps

\* C18 as stated: a follow-up query of a session with a last backend is
\* routed to that backend.
C18_FollowUpKeepsLastBackend ==
    (lastSmart.called /\ IsSticky) => lastSmart.last \in lastSmart.mcps

\* C18, amended: a follow-up query of a session with a last backend is
\* routed to that backend, unless that backend is k8s_remote, the pulse
\* reports it as disconnected and the query does not contain "remote".
C18_FollowUpKeepsConnectedLastBackend ==
    (/\ lastSmart.called
     /\ IsSticky
     /\ ~(/\ lastSmart.last = MCP_K8S_REMOTE
          /\ lastSmart.status = "disconnected"
          /\ ~In(RemoteText, RoutedQuery))) =>
        lastSmart.last \in lastSmart.mcps

\* A follow-up that no keyword sends to the session's last backend.
C18_Witness ==
    /\ lastSmart.called
    /\ IsSticky
    /\ lastSmart.last = MCP_K8S_LOCAL
    /\ ~MatchesAny(RoutedQuery, K8sLocalKeywords)
    /\ lastSmart.mcps = {MCP_K8S_LOCAL}

\* C19: a query with "status" or "check" that has no keyword of docker or of
\* a cluster, routed without a session while the pulse does not report the
\* remote cluster as disconnected, goes to docker and to k8s_remote.
C19_StatusFallsBackToAll ==
    (/\ lastSmart.called
     /\ lastSmart.session_id = "None"
     /\ In(StatusText, RoutedQuery) \/ In(CheckText, RoutedQuery)
     /\ SpecificKeywords(RoutedQuery) \subseteq {MCP_CHAT}
     /\ lastSmart.status # "disconnected") =>
        {MCP_DOCKER, MCP_K8S_REMOTE} \subseteq lastSmart.mcps

\* The queries of C20: only Docker keywords, or only chat keywords, and no
\* common Kubernetes term.
OnlyKeywordsOf(mcp) == SpecificKeywords(RoutedQuery) = {mcp} /\ ~AboutK8s

\* C20 as stated: a Docker query is not routed to a cluster, and a greeting
\* is routed to chat and neither to docker nor to k8s_remote.
C20_UnrelatedBackendsKeptOut ==
    lastSmart.called =>
        /\ OnlyKeywordsOf(MCP_DOCKER) =>
               lastSmart.mcps \cap {MCP_K8S_LOCAL, MCP_K8S_REMOTE} = {}
        /\ OnlyKeywordsOf(MCP_CHAT) =>
               /\ MCP_CHAT \in lastSmart.mcps
               /\ lastSmart.mcps \cap {MCP_DOCKER, MCP_K8S_REMOTE} = {}

\* C20, amended: a Docker query is routed to docker and a greeting to chat,
\* and to no other backend than the last backend of the session when the
\* call has a sticky context.
C20_UnrelatedBackendsKeptOutButSticky ==
    lastSmart.called =>
        \A mcp \in {MCP_DOCKER, MCP_CHAT} :
            OnlyKeywordsOf(mcp) =>
                /\ mcp \in lastSmart.mcps
                /\ lastSmart.mcps \subseteq
                       {mcp} \cup (IF IsSticky THEN {lastSmart.last} ELSE {})

\* A Docker follow-up in a session whose last backend is a cluster.
C20_Witness ==
    /\ lastSmart.called
    /\ OnlyKeywordsOf(MCP_DOCKER)
    /\ IsSticky
    /\ lastSmart.mcps = {MCP_DOCKER, MCP_K8S_LOCAL}

\* A greeting without a session.
C20_WitnessChat ==
    /\ lastSmart.called
    /\ OnlyKeywordsOf(MCP_CHAT)
    /\ lastSmart.session_id = "None"
    /\ lastSmart.mcps = {MCP_CHAT}

(***************************************************************************)
(* Claims about the backend client                                         *)
(***************************************************************************)

\* The backend answered, with a status outside 2xx or with an error field.
BackendError(response) ==
    /\ response.kind = "response"
    /\ \/ ~IsSuccessStatus(response.status_code)
       \/ response.is_json /\ "error" \in DOMAIN response.body

\* C21: when the backend answers with a non-2xx status or with a JSON-RPC
\* error field, the result has success = false, an error and the payload of
\* the server under raw_error; a connection failure and a timeout are
\* returned as two different error messages.
C21_BackendErrorKeepsPayload ==
    /\ (clientCall.called /\ BackendError(clientCall.response)) =>
           /\ "success" \in DOMAIN clientCall.result
           /\ clientCall.result.success = FALSE
           /\ "error" \in DOMAIN clientCall.result
           /\ "raw_error" \in DOMAIN clientCall.result
           /\ clientCall.result.raw_error = clientCall.response.body
    /\ \A tool_name \in ClientTools, arguments \in ClientArguments :
           CallToolAsync(tool_name, arguments, ConnectError).error
               # CallToolAsync(tool_name, arguments, TimeoutException).error

(***************************************************************************)
(* Claims about the safety classifier                                      *)
(***************************************************************************)

\* The names the classifier is said to label dangerous, the scopes being the
\* two clusters.
ListedPrefixes ==
    { <<"d", "o", "c", "k", "e", "r", "_", "s", "t", "o", "p">>,
      <<"d", "o", "c", "k", "e", "r", "_", "r", "m">>,
      <<"d", "o", "c", "k", "e", "r", "_", "p", "r", "u", "n", "e">>,
      <<"l", "o", "c", "a", "l", "_", "k", "8", "s", "_", "d", "e", "l", "e", "t", "e">>,
      <<"r", "e", "m", "o", "t", "e", "_", "k", "8", "s", "_", "d", "e", "l", "e", "t", "e">>,
      <<"r", "e", "m", "o", "t", "e", "_", "k", "8", "s", "_", "p", "r", "o", "m", "o", "t", "e">>,
      <<"r", "e", "m", "o", "t", "e", "_", "k", "8", "s", "_", "e", "x", "e", "c">> }

Listed(tool_name) ==
    \/ \E p \in ListedPrefixes : StartsWith(tool_name, p)
    \/ tool_name = <<"d", "o", "c", "k", "e", "r", "_", "r", "u", "n", "_", "c", "o", "n", "t", "a", "i", "n", "e", "r">>

\* A delete tool named without a scope.
UnscopedDelete(tool_name) == StartsWith(tool_name, <<"k", "8", "s", "_", "d", "e", "l", "e", "t", "e">>)

\* The assessment of the last call is the one of a name that is dangerous
\* (HIGH) or not (LOW, no impacts).
AssessedAs(dangerous) ==
    /\ risk.assessment.is_dangerous = dangerous
    /\ risk.assessment.risk_level = (IF dangerous THEN "HIGH" ELSE "LOW")
    /\ ~dangerous => risk.assessment.impact_analysis = <<>>

\* C22: a tool name is labelled dangerous if and only if it starts with one
\* of docker_stop, docker_rm, docker_prune, <scope>_k8s_delete,
\* remote_k8s_promote, remote_k8s_exec or is exactly docker_run_container;
\* analyze_risk reports HIGH for exactly those names and LOW with no impacts
\* for every other name.
C22_DangerousIffListed ==
    risk.called => AssessedAs(Listed(risk.tool_name))

\* C22, amended: the dangerous names are the listed ones and the names that
\* start with k8s_delete, without a scope.
C22_DangerousIffListedOrUnscopedDelete ==
    risk.called =>
        AssessedAs(Listed(risk.tool_name) \/ UnscopedDelete(risk.tool_name))

\* analyze_risk was called for a delete tool named without a scope.
C22_Witness ==
    /\ risk.called
    /\ UnscopedDelete(risk.tool_name)
    /\ ~Listed(risk.tool_name)
    /\ risk.assessment.risk_level = "HIGH"

\* analyze_risk was called for docker_run_container and for a longer name.
C22_WitnessExact ==
    /\ risk.called
    /\ StartsWith(risk.tool_name, <<"d", "o", "c", "k", "e", "r", "_", "r", "u", "n", "_", "c", "o", "n", "t", "a", "i", "n", "e", "r">>)
    /\ risk.tool_name # <<"d", "o", "c", "k", "e", "r", "_", "r", "u", "n", "_", "c", "o", "n", "t", "a", "i", "n", "e", "r">>
    /\ risk.assessment.risk_level = "LOW"

(***************************************************************************)
(* Claims about the remote exec tool                                       *)
(***************************************************************************)

\* The command is empty, or its first element is not in the allow-list.
Unsafe(command) ==
    \/ command.type = "None"
    \/ command.items = <<>>
    \/ Head(command.items) \notin SAFE_COMMANDS

\* C23: run rejects every command whose first element is not in the safe
\* allow-list, and every empty command, with success = false, before any
\* kubeconfig file is created and before any subprocess is started.
C23_UnsafeCommandRejectedFirst ==
    (execRun.pc # "idle" /\ Unsafe(execRun.command)) =>
        /\ execRun.pc = "returned"
        /\ execRun.result.success = FALSE
        /\ execRun.created = 0
        /\ execRun.started = 0

\* run has returned for a command that is not in the allow-list.
C23_Witness ==
    /\ execRun.pc = "returned"
    /\ execRun.command = ListCommand(<<"rm", "-rf", "/">>)
    /\ execRun.result.success = FALSE
    /\ execRun.created = 0

\* C33: the temporary kubeconfig file that run creates is removed on every
\* path by which run returns once the file exists (success, non-zero exit,
\* subprocess timeout, an error raised while the file is being written):
\* when run has returned, no kubeconfig file of a run is left.
C33_KubeconfigRemovedOnReturn ==
    execRun.pc = "returned" => execRun.tmp_files = 0

(***************************************************************************)
(* Claims about the tool retrieval                                         *)
(***************************************************************************)

\* C24: retrieve(query, k) returns at most k descriptors, each of them a
\* descriptor of the registry, on every path, the path without a query
\* embedding included.
C24_AtMostKOfRegistry ==
    retrieval.called =>
        /\ Len(retrieval.result) <= retrieval.top_k
        /\ \A i \in 1..Len(retrieval.result) :
               retrieval.result[i] \in RetrieverToolNames

(***************************************************************************)
(* Claims about the pulse monitor                                          *)
(***************************************************************************)

\* C27: per backend the status follows the failures of its probes: from
\* healthy one failed probe gives degraded, two failed probes in a row give
\* disconnected, and a successful probe gives healthy from every status.
C27_StatusFollowsProbes ==
    [][\A b \in PulseBackends :
           (pulse'.clock = pulse.clock + 1 /\ pulse'.probe.backend = b) =>
               LET before == pulse.snapshots[b]
                   after == pulse'.snapshots[b]
                   ok == pulse'.probe.ok
               IN /\ ok => after.status = "healthy"
                  /\ (~ok /\ before.status = "healthy") =>
                         after.status = "degraded"
                  /\ (~ok /\ before.failures >= 1) =>
                         after.status = "disconnected"]_vars

\* A backend is disconnected after two failed probes in a row, another one
\* is healthy again after a failure.
C27_Witness ==
    \E b, c \in PulseBackends :
        /\ pulse.snapshots[b].status = "disconnected"
        /\ pulse.snapshots[c].status = "healthy"
        /\ pulse.snapshots[c].last_check_ts >= 2

(***************************************************************************)
(* Claims about the parser on the shapes of LLM output                     *)
(***************************************************************************)

\* The shapes the pipeline is said to accept, and those it is said to
\* reject.
AcceptedShapes ==
    {"array", "array of two", "fenced array", "prose with array", "object",
     "name and args", "name"}

RejectedShapes == {"empty", "garbage"}

\* C25: the parse pipeline accepts a bare JSON array of calls, an array in
\* a fenced code block, prose with an embedded array, a single call object,
\* the [name, args] shorthand and the [name] shorthand, and yields the
\* calls they denote; it rejects the empty string and non-JSON garbage.
C25_ShapesAccepted ==
    parseCall.called =>
        /\ parseCall.output.shape \in AcceptedShapes =>
               parseCall.calls = parseCall.output.denotes
        /\ parseCall.output.shape \in RejectedShapes =>
               parseCall.calls = <<>>

\* Prose: text around a JSON value that starts at the first bracket.
ProseShapes ==
    {"prose with array", "prose with object",
     "prose with object before array"}

\* C30: for prose the parser starts at the first '[' or '{' of the text,
\* whichever occurs first, and extracts up to its balanced closer: a call
\* object that precedes any '[' is parsed as that call.
C30_FirstBracketExtracted ==
    (parseCall.called /\ parseCall.output.shape \in ProseShapes) =>
        parseCall.validated = Parsed(parseCall.output.denotes)

(***************************************************************************)
(* Claims about the retries of Stage B                                     *)
(***************************************************************************)

\* The query that the Stage B attempt of the step sent.
Sent == smartQueries'[Len(smartQueries')]

StageBAttempted == Len(smartQueries') = Len(smartQueries) + 1

C26_SameQuerySameCalls ==
    [][(/\ routeCalls' = routeCalls + 1
        /\ lastRoute.called
        /\ lastRoute'.query = lastRoute.query
        /\ ~lastRoute.result.raises
        /\ ~lastRoute'.result.raises) =>
           /\ lastRoute'.result.none = lastRoute.result.none
           /\ lastRoute'.result.calls = lastRoute.result.calls]_vars

\* Where a template comes from.
IsManual(t) ==
    \E manual \in ManualTemplateLists : \E i \in 1..Len(manual) : manual[i] = t

IsInferred(t) == \E i \in 1..Len(InferredTemplates) : InferredTemplates[i] = t

\* The template matches the stripped query of the last call and its
\* arguments interpolate.
Produces(t) ==
    LET m == RegexMatch(t.pattern, StripQuery(lastRoute.query))
    IN  m.matched /\ Interpolates(t.args, m.groups)

ProducedCall(t) ==
    Call(t.tool,
         Interpolate(t.args,
                     RegexMatch(t.pattern, StripQuery(lastRoute.query)).groups))

\* The last call ran the body of route: it was not served by the cache.
Scanned == lastRoute.called /\ ~lastRoute.cached /\ ~lastRoute.result.raises

C29_WitnessIntent ==
    /\ Scanned
    /\ lastRoute.result.tier = "intent"
    /\ \A i \in 1..Len(templates) : ~Produces(templates[i])

(***************************************************************************)
(* Claims about the save of the index                                      *)
(***************************************************************************)

\* The index file and the metadata file describe the same set of tools:
\* as many vectors as tools.
FilesAgree(files) ==
    (files.index_path.exists /\ files.metadata_path.exists) =>
        files.index_path.ntotal =
            Cardinality(DOMAIN files.metadata_path.metadata.tools)

\* C31: at every instant, the index file and the metadata file that a
\* start of the process would find on disk describe the same set of tools
\* (the vector count equals the number of tools in the metadata), wherever
\* in a save the process stops.
C31_FilesAgreeAtEveryInstant == FilesAgree(saveRun.files)

(***************************************************************************)
(* Claims about the JSON caches on disk                                    *)
(***************************************************************************)

\* The file at the path is not a partially written one.
Whole(file) == file.exists => file.whole

\* C32: the semantic cache, the intent-embedding cache and the
\* tool-embedding cache are written to a temporary file that is renamed, so
\* that at no instant of a save the file at the path of a cache is a
\* partially written one: a process that stops during a save leaves the
\* previous contents in place.
C32_NoPartialFileInPlace == \A path \in JsonPaths : Whole(fileWrite.files[path])

(***************************************************************************)
(* Claims about the cache of query embeddings                              *)
(***************************************************************************)

\* C34: in every reachable state the query-embedding cache of the tool
\* retriever holds at most 256 entries; when it overflows it is cleared.
C34_AtMostLimitEntries == queryCache.cache.len <= QueryCacheLimit

(***************************************************************************)
(* Claims about the result of the smart MCP router                         *)
(***************************************************************************)

\* C35: SmartMCPRouter.route never returns an empty list of backends: for
\* every query, session state and pulse state the result names at least one
\* backend.
C35_RouteNamesABackend == lastSmart.called => lastSmart.mcps # {}

(***************************************************************************)
(* Claims about the entries of the FAISS tool index                        *)
(***************************************************************************)

\* The tools that a search on the index can return: those that
\* idx_to_tool gives for a position below ntotal (lines 213-222).
Findable(st) ==
    { st.metadata.idx_to_tool[k] :
        k \in { key \in DOMAIN st.metadata.idx_to_tool :
                  \E i \in 0..(st.index.ntotal - 1) : key = Str(i) } }

\* Every tool but tool_name that is indexed in before is in the metadata
\* of after, and a search on after can return it.
OthersKept(before, after, tool_name) ==
    \A other \in DOMAIN before.metadata.tools \ {tool_name} :
        /\ other \in DOMAIN after.metadata.tools
        /\ other \in Findable(after)

\* C36: removing a tool from the index, and adding a tool under a name that
\* is already indexed, change only the entry of that tool: every other tool
\* that was indexed before the operation is in the metadata and is found by
\* search afterwards.
C36_OtherEntriesKept ==
    \A tool_name \in DOMAIN metadata.tools :
        /\ OthersKept(Current, Remove(Current, tool_name), tool_name)
        /\ OthersKept(Current, Add(Current, tool_name, TRUE, 0), tool_name)


\* The metadata that a restart would load from the files is the metadata
\* in memory.
Persisted(st) == LoadOrCreate(TRUE, st.disk).metadata = st.metadata

\* C37: when add, remove or clear has returned, the persisted metadata
\* equals the metadata in memory, so that a tool removed in one run of the
\* process is absent after a restart that loads the index from disk.
C37_PersistedEqualsMemory ==
    index.present =>
        \A tool_name \in FaissToolNames :
            /\ Persisted(Add(Current, tool_name, TRUE, 0))
            /\ Persisted(Remove(Current, tool_name))
            /\ Persisted(Clear(Current))

(***************************************************************************)
(* Claims about concurrent retrieve calls                                  *)
(***************************************************************************)

\* Every retrieve call has completed its sync.
AllSynced == \A r \in Retrieves : gather.pc[r] = "synced"

\* C38: when several retrieve calls run concurrently on one ToolRetriever
\* while tools of the registry are missing from the index, then once all
\* their syncs have completed, every embedding request having succeeded,
\* every tool of the registry is in the index.
C38_ConcurrentSyncsIndexAll ==
    (AllSynced /\ gather.embedded) =>
        FaissToolNames \subseteq DOMAIN gather.st.metadata.tools

(***************************************************************************)
(* Claims about concurrent adds to the semantic cache                      *)
(***************************************************************************)

\* C39: the semantic cache never holds two entries that were added with
\* the same query text, whatever the interleaving of concurrent add calls.
C39_OneEntryPerQuery ==
    \A i, j \in 1..Len(entries) : entries[i].query = entries[j].query => i = j

\* Two add calls for one query were suspended together; the first to
\* resume has appended its entry, the other has not resumed yet.
C39_Witness ==
    /\ Len(entries) = 1
    /\ addsStarted = 2
    /\ clock = 2
    /\ lastAdded.query = entries[1].query
    /\ lastAdded.output = entries[1].output
    /\ \E p \in pendingAdds :
          p.query = entries[1].query /\ p.output # entries[1].output

\* Two add calls for one query are suspended at the await of line 81.
C39_WitnessSuspended ==
    /\ entries = <<>>
    /\ Cardinality(pendingAdds) = 2
    /\ \A p1, p2 \in pendingAdds : p1.query = p2.query

\* The same calls, both returned: the cache holds the entry of the first.
C39_WitnessReturned ==
    /\ Len(entries) = 1
    /\ pendingAdds = {}
    /\ clock = 3
    /\ lastAdded.embOk
    /\ lastAdded.query = entries[1].query
    /\ lastAdded.output # entries[1].output

(***************************************************************************)
(* Claims about the approval of a confirmation request                     *)
(***************************************************************************)

\* The position of the last user record of the session log.
LastUserRecord ==
    CHOOSE i \in 0..Len(sessionLog) :
        /\ i > 0 => sessionLog[i].role = "user"
        /\ \A j \in (i + 1)..Len(sessionLog) : sessionLog[j].role # "user"

\* The records that the current turn appended after the query of the user.
TurnRecords == SubSeq(sessionLog, LastUserRecord + 1, Len(sessionLog))

\* The call of the tool of the confirmation request, with its arguments.
RequestedCall == Call(confReq.tool, confReq.arguments)

\* C40: when the user approves the confirmation request of a turn, exactly
\* one backend call is issued, for the tool of the request with its
\* arguments, and the assistant record logged for the turn is that single
\* call; when the user declines, nothing is executed and neither an
\* assistant record nor a system-output record is appended for the turn.
C40_ApprovedCallAloneOrNothing ==
    /\ (cliPc = "done" /\ approved = "yes") =>
          /\ backendCalls = <<RequestedCall>>
          /\ Len(TurnRecords) = 2
          /\ TurnRecords[1] = Msg("assistant", <<RequestedCall>>)
          /\ TurnRecords[2].role = "system_output"
    /\ (cliPc = "done" /\ approved = "no") =>
          /\ backendCalls = <<>>
          /\ TurnRecords = <<>>

\* The user approved the deletion that the agent had planned after a
\* listing: the deletion alone was called and logged.
C40_Witness ==
    /\ cliPc = "done"
    /\ approved = "yes"
    /\ confReq = Request(DeleteCall.name, DeleteCall.arguments)
    /\ backendCalls = <<DeleteCall>>
    /\ TurnRecords[1] = Msg("assistant", <<DeleteCall>>)

\* The user declined in the second turn of a session.
C40_WitnessDeclined ==
    /\ cliPc = "done"
    /\ approved = "no"
    /\ turns = 2
    /\ Len(sessionLog) > 1
    /\ TurnRecords = <<>>

====
